---- MODULE Spec2Model ----
(***************************************************************************)
(* Model of the temporal synchronizers (Real-Time, Back-Propagate), the    *)
(* receiver clock jump compensation of the tightly coupled INS/GPS and the *)
(* per-satellite ephemeris history of the GPS space node.                  *)
(*                                                                         *)
(* Fixed-point grid replacing float_t:                                     *)
(*   - times (elapsedT, advanceT, back_propagate_depth) are integers in ms *)
(*   - clock errors and range residuals are integers in LightMs-ths of     *)
(*     (light_speed * 1 ms); means of residuals are compared by cross      *)
(*     multiplication, so no division result is ever rounded               *)
(*   - ephemeris times are integers in seconds                             *)
(***************************************************************************)
EXTENDS Integers, Sequences, FiniteSets, TLC

VARIABLES
  rt_snapshots,   \* INS_GPS_RealTime::snapshots, front = index 1
  rt_filter,      \* the live filter the Real-Time facade derives from
  rt_last,        \* the last Real-Time operation: its inputs, return value, diagnostics
  bp_snapshots,   \* INS_GPS_Back_Propagate::snapshots, front = index 1
  bp_filter,      \* the live filter the Back-Propagate facade derives from
  bp_depth,       \* INS_GPS_Back_Propagate_Property::back_propagate_depth
  bp_last,        \* record of the last Back-Propagate operation
  history,        \* PropertyHistory::history, history[0] of the code = index 1
  selected_index, \* PropertyHistory::selected_index (0-based as in the code)
  another,        \* the history handed to merge()
  merge_st,       \* position of a merge() in progress
  hist_last,      \* record of the last history operation
  calc,           \* the last call of a function without state: inputs and result
  loader          \* GNSS_Data::Loader: space node, subframes of one satellite, last call

rt_vars == <<rt_snapshots, rt_filter, rt_last>>
bp_vars == <<bp_snapshots, bp_filter, bp_depth, bp_last>>
hist_vars == <<history, selected_index, another, merge_st, hist_last>>
vars == <<rt_vars, bp_vars, hist_vars, calc, loader>>

(***************************************************************************)
(* Bounds of the model                                                     *)
(***************************************************************************)
MaxSnapshots == 3      \* snapshots kept before the next correction is forced
MaxJumpSnapshots == 2  \* snapshots kept where the clock errors are explored
MaxClockError == 15    \* |clock error| the Kalman correction is explored up to

(***************************************************************************)
(* Program constants                                                       *)
(***************************************************************************)
CLOCKS_SUPPORTED == 2
LightMs == 10          \* grid units of light_speed * 1E-3
MatchToleranceMs == 5  \* advanceT > -0.005
SufficientMs == 100    \* mod_elapsedT > 0.1
JumpThresholdTenthMs == 9 \* 0.9 ms

ClockIndices == 0 .. (CLOCKS_SUPPORTED - 1)

Abs(x) == IF x < 0 THEN -x ELSE x

RECURSIVE SumElapsed(_)
SumElapsed(s) ==
  IF s = <<>> THEN 0 ELSE s[1].elapsedT + SumElapsed(Tail(s))

(***************************************************************************)
(* Inputs                                                                  *)
(***************************************************************************)
ElapsedSet == {5, 10, 20}                     \* IMU steps deltaT [ms], Real-Time
BP_ElapsedSet == {10, 110}                    \* IMU steps deltaT [ms], Back-Propagate
DepthSet == {-120, 0, 15, 120}                   \* back_propagate_depth [ms]
AdvanceSet == {-40, -25, -20, -15, -10, -5, 0, 10}  \* advanceT [ms]
RegenSet == {0, 6}          \* change of the predicted range at the shifted receiver time

\* One satellite of a GPS_RawData measurement: its range offset, whether its
\* weight is positive and whether it carries a range rate.
Sat(rho, used, rate) == [rho |-> rho, used |-> used, rate |-> rate]
MeasurementSet ==
  { <<>>,
    <<Sat(4, FALSE, FALSE)>>,
    <<Sat(4, TRUE, FALSE)>>,
    <<Sat(9, TRUE, TRUE)>>,
    <<Sat(-12, TRUE, FALSE)>>,
    <<Sat(9, TRUE, FALSE), Sat(20, TRUE, FALSE)>> }
\* GPS_RawData: clock_index, the measurement map (here a sequence) and the
\* change of the predicted range at the shifted receiver time.  The second
\* clock receives two of the bundles, and one bundle names a clock the
\* filter does not support.
GpsSet ==
  [clock_index : {0}, measurement : MeasurementSet, regen : RegenSet]
  \cup [clock_index : {1},
        measurement : {<<Sat(4, TRUE, FALSE)>>, <<Sat(9, TRUE, TRUE)>>}, regen : {0}]
  \cup [clock_index : {CLOCKS_SUPPORTED},
        measurement : {<<Sat(4, TRUE, FALSE)>>}, regen : {0}]

\* Measurements of one satellite with and without a clock jump of 1 ms.
PlainGpsSet ==
  [clock_index : {0},
   measurement : {<<Sat(4, TRUE, FALSE)>>, <<Sat(9, TRUE, FALSE)>>},
   regen : {0}]

\* Measurements without a jump, with a jump that is fixed, and with jumps
\* whose regenerated residual mean is 0.9 ms and 1.05 ms.
SkipGpsSet ==
  { [clock_index |-> 0, measurement |-> <<Sat(4, TRUE, FALSE)>>, regen |-> 0],
    [clock_index |-> 0, measurement |-> <<Sat(9, TRUE, FALSE)>>, regen |-> 0],
    [clock_index |-> 0, measurement |-> <<Sat(9, TRUE, FALSE)>>, regen |-> 10],
    [clock_index |-> 0,
     measurement |-> <<Sat(9, TRUE, FALSE), Sat(20, TRUE, FALSE)>>, regen |-> 6] }

StepMs == 10   \* the IMU step where only the clock errors are explored

\* Clock drift m_clock_error_rate[i] * deltaT of one INS update, per clock.
DriftSet == {<<0, 0>>, <<5, 0>>}
\* Clock components of the Kalman estimate x_hat, per clock.
XhatVecSet == {<<0, 0>>, <<5, 0>>}
\* What a read through front() of an empty list can yield for clock_error.
GarbageSet == {<<0, 0>>, <<5, -10>>}

\* A tuple indexed 1..CLOCKS_SUPPORTED as the array m_clock_error[0..].
ClockArray(t) == [i \in ClockIndices |-> t[i + 1]]

(***************************************************************************)
(* Clock error augmented INS and its filter                                *)
(***************************************************************************)
\* INS_ClockErrorEstimated(): every clock error starts at 0.
NewFilter == [clock_error |-> [i \in ClockIndices |-> 0]]

\* INS_ClockErrorEstimated::update: m_clock_error[i] += m_clock_error_rate[i] * deltaT
INS_update(f, drift) ==
  [f EXCEPT !.clock_error = [i \in ClockIndices |-> f.clock_error[i] + drift[i]]]

\* Filtered_INS_ClockErrorEstimated::correct_INS: (*this)[j] -= x_hat(i, 0)
correct_INS(f, x_hat) ==
  [f EXCEPT !.clock_error = [i \in ClockIndices |-> f.clock_error[i] - x_hat[i]]]

InClockRange(f) == \A i \in ClockIndices : Abs(f.clock_error[i]) <= MaxClockError

(***************************************************************************)
(* Tightly coupled corrector: correct_info and the clock jump detector     *)
(***************************************************************************)
\* Columns of H that belong to the clocks, relative to P_SIZE_WITHOUT_CLOCK_ERROR.
ClockColumns == 0 .. (2 * CLOCKS_SUPPORTED - 1)

\* Range residual of one satellite for a receiver clock error (shift included):
\* the measured minus the predicted range, minus the receiver clock error.  The
\* predicted range is evaluated at t - clock_error / light_speed, so it moves by
\* gps.regen when the clock error is shifted.
range_residual(sat, gps, clock_error, clock_error_shift) ==
  sat.rho + (IF clock_error_shift = 0 THEN 0 ELSE gps.regen) - clock_error

\* INS_GPS2_Tightly::assign_z_H_R: the rows one satellite contributes.
assign_z_H_R(sat, gps, clock_error, clock_error_shift) ==
  IF ~sat.used THEN <<>>   \* prop.weight <= 0: intentional exclusion
  ELSE
    LET rangeRow ==
          [z |-> range_residual(sat, gps, clock_error, clock_error_shift),
           H |-> [c \in ClockColumns |-> IF c = 2 * gps.clock_index THEN -1 ELSE 0]]
        rateRow ==
          [z |-> 0,
           H |-> [c \in ClockColumns |-> IF c = 2 * gps.clock_index + 1 THEN -1 ELSE 0]]
    IN IF sat.rate THEN <<rangeRow, rateRow>> ELSE <<rangeRow>>

RECURSIVE assign_rows(_, _, _, _)
assign_rows(m, gps, clock_error, clock_error_shift) ==
  IF m = <<>> THEN <<>>
  ELSE assign_z_H_R(m[1], gps, clock_error, clock_error_shift)
       \o assign_rows(Tail(m), gps, clock_error, clock_error_shift)

\* INS_GPS2_Tightly::correct_info: the rows of (z, H); <<>> is no_info().
correct_info(f, gps, clock_error_shift) ==
  IF gps.clock_index >= CLOCKS_SUPPORTED THEN <<>>
  ELSE assign_rows(gps.measurement, gps,
                   f.clock_error[gps.clock_index] + clock_error_shift,
                   clock_error_shift)

\* The rows range_residual_mean_ms averages: H(i, clock column) <= -0.5.
RECURSIVE range_rows(_, _)
range_rows(clock_index, info) ==
  IF info = <<>> THEN <<>>
  ELSE (IF 2 * info[1].H[2 * clock_index] > -1 THEN <<>> ELSE <<info[1]>>)
       \o range_rows(clock_index, Tail(info))

RECURSIVE SumZ(_)
SumZ(rows) == IF rows = <<>> THEN 0 ELSE rows[1].z + SumZ(Tail(rows))

\* INS_GPS2_Tightly::range_residual_mean_ms as the exact fraction sum / n
\* in grid units (n = 0 stands for the value 0 the code returns).
range_residual_mean_ms(clock_index, info) ==
  LET rows == range_rows(clock_index, info)
  IN [sum |-> SumZ(rows), n |-> Len(rows)]

\* (delta_ms >= 0.9) || (delta_ms <= -0.9)
JumpDetected(d) ==
  /\ d.n > 0
  /\ \/ 10 * d.sum >= JumpThresholdTenthMs * d.n * LightMs
     \/ 10 * d.sum <= -JumpThresholdTenthMs * d.n * LightMs

\* JumpFixed with the bounds 0.9 ms and -0.9 ms included.
JumpFixed_le(d) ==
  \/ d.n = 0
  \/ /\ 10 * d.sum <= JumpThresholdTenthMs * d.n * LightMs
     /\ 10 * d.sum >= -JumpThresholdTenthMs * d.n * LightMs

\* (delta_ms < 0.9) && (delta_ms > -0.9)
JumpFixed(d) ==
  \/ d.n = 0
  \/ /\ 10 * d.sum < JumpThresholdTenthMs * d.n * LightMs
     /\ 10 * d.sum > -JumpThresholdTenthMs * d.n * LightMs

\* clock_error_shift_of with std::floor(delta_ms), the rounding left out.
clock_error_shift_trunc(d) ==
  LightMs * (d.sum \div (d.n * LightMs))

\* light_speed * 1E-3 * std::floor(delta_ms + 0.5)
clock_error_shift_of(d) ==
  LightMs * ((2 * d.sum + d.n * LightMs) \div (2 * d.n * LightMs))

\* The clock jump check shared by correct_with_clock_jump_check and
\* correct2_tightly, run on the filter state f the generator is given.
\* jump: "noinfo" (return before detection), "none", "fixed", "skipped".
clock_jump_check(f, gps) ==
  LET info0 == correct_info(f, gps, 0)
      d0 == range_residual_mean_ms(gps.clock_index, info0)
      shift == clock_error_shift_of(d0)
      info1 == correct_info(f, gps, shift)
      d1 == range_residual_mean_ms(gps.clock_index, info1)
  IN IF Len(info0) < 1 THEN
       [jump |-> "noinfo", shift |-> 0, info |-> info0, delta |-> d0, delta2 |-> d0]
     ELSE IF ~JumpDetected(d0) THEN
       [jump |-> "none", shift |-> 0, info |-> info0, delta |-> d0, delta2 |-> d0]
     ELSE IF JumpFixed(d1) THEN
       [jump |-> "fixed", shift |-> shift, info |-> info1, delta |-> d0, delta2 |-> d1]
     ELSE
       [jump |-> "skipped", shift |-> shift, info |-> info1, delta |-> d0, delta2 |-> d1]

\* shift_clock adding the shift to the clock error of every clock.
shift_clock_all(f, clock_index, shift) ==
  [f EXCEPT !.clock_error = [i \in ClockIndices |-> f.clock_error[i] + shift]]

\* m_clock_error[gps.clock_index] += clock_error_shift
shift_clock(f, clock_index, shift) ==
  [f EXCEPT !.clock_error[clock_index] = @ + shift]


(***************************************************************************)
(* Real-Time synchronizer (INS_GPS_RealTime)                               *)
(***************************************************************************)
RT_NoOp == [op |-> "init", seq |-> 0]

\* Alternates at every operation, so that no operation is a stuttering step.
Flip(last) == 1 - last.seq

\* snapshot_content_t of INS_GPS_RealTime: the deep copy of the filter (its
\* clock errors) and elapsedT_from_last_update.
RT_snapshot(f, elapsedT) == [ins_gps |-> f, elapsedT |-> elapsedT]

\* INS_GPS_RealTime::before_update_INS followed by the INS time update.
RT_update(elapsedT, drift) ==
  /\ Len(rt_snapshots) < MaxSnapshots
  /\ InClockRange(INS_update(rt_filter, drift))
  /\ rt_snapshots' = Append(rt_snapshots, RT_snapshot(rt_filter, elapsedT))
  /\ rt_filter' = INS_update(rt_filter, drift)
  /\ rt_last' = [op |-> "update", seq |-> Flip(rt_last), elapsedT |-> elapsedT]
  /\ UNCHANGED <<loader, calc, bp_vars, hist_vars>>

\* setup_scan with the comparison advanceT >= -0.005.
RECURSIVE setup_scan_ge(_, _, _)
setup_scan_ge(snaps, k, advanceT) ==
  IF k = 0 THEN 0
  ELSE IF advanceT + snaps[k].elapsedT >= -MatchToleranceMs THEN k
  ELSE setup_scan_ge(snaps, k - 1, advanceT + snaps[k].elapsedT)

\* The reverse scan of setup_correct: the 1-based index of the first snapshot,
\* newest first, at which the accumulated advanceT exceeds -5 ms; 0 when none.
RECURSIVE setup_scan(_, _, _)
setup_scan(snaps, k, advanceT) ==
  IF k = 0 THEN 0
  ELSE IF advanceT + snaps[k].elapsedT > -MatchToleranceMs THEN k
  ELSE setup_scan(snaps, k - 1, advanceT + snaps[k].elapsedT)

\* snapshots.erase(snapshots.begin(), it.base()) for the reverse iterator at
\* index k: it.base() is the element after k, so 1..k are erased; at rbegin
\* the iterator is advanced first, so 1..k-1 are erased.
setup_erase(snaps, k) ==
  IF k = Len(snaps) THEN SubSeq(snaps, k, Len(snaps))
  ELSE SubSeq(snaps, k + 1, Len(snaps))

\* setup_correct without the rejection of advanceT > 0.
setup_correct_any(snaps, advanceT) ==
  LET k == setup_scan(snaps, Len(snaps), advanceT)
  IN IF k = 0 THEN [ret |-> FALSE, snapshots |-> snaps, matched |-> 0]
     ELSE [ret |-> TRUE, snapshots |-> setup_erase(snaps, k), matched |-> k]

\* INS_GPS_RealTime::setup_correct
setup_correct(snaps, advanceT) ==
  IF advanceT > 0 THEN [ret |-> FALSE, snapshots |-> snaps, matched |-> 0]
  ELSE LET k == setup_scan(snaps, Len(snaps), advanceT)
       IN IF k = 0 THEN [ret |-> FALSE, snapshots |-> snaps, matched |-> 0]
          ELSE [ret |-> TRUE, snapshots |-> setup_erase(snaps, k), matched |-> k]

RT_setup_correct(advanceT) ==
  LET r == setup_correct(rt_snapshots, advanceT)
  IN /\ rt_snapshots' = r.snapshots
     /\ rt_last' = [op |-> "setup_correct", seq |-> Flip(rt_last),
                    advanceT |-> advanceT, ret |-> r.ret, matched |-> r.matched]
     /\ UNCHANGED <<loader, calc, rt_filter, bp_vars, hist_vars>>

\* Filtered_INS2::correct_primitive on the live filter: x_hat = K v is the
\* estimate of the Kalman filter, applied by correct_INS.
correct_primitive(f, x_hat) == correct_INS(f, x_hat)

\* INS_GPS_RealTime::correct -> correct2 -> correct2_tightly.
\* front is the filter state read through snapshots.front().
RT_correct2_tightly(gps, x_hat, front) ==
  \E chk \in {clock_jump_check(front, gps)} :
  LET fixed == chk.jump = "fixed"
      run == chk.jump \in {"none", "fixed"}
      snaps1 == IF fixed
                THEN [i \in 1 .. Len(rt_snapshots) |->
                        [rt_snapshots[i] EXCEPT
                           !.ins_gps = shift_clock(@, gps.clock_index, chk.shift)]]
                ELSE rt_snapshots
      live1 == IF fixed THEN shift_clock(rt_filter, gps.clock_index, chk.shift)
               ELSE rt_filter
      live2 == IF run THEN correct_primitive(live1, x_hat) ELSE live1
  IN /\ InClockRange(live2)
     /\ rt_snapshots' = snaps1
     /\ rt_filter' = live2
     /\ rt_last' = [op |-> "correct", seq |-> Flip(rt_last),
                    clock_index |-> gps.clock_index, jump |-> chk.jump,
                    shift |-> chk.shift, delta |-> chk.delta,
                    delta2 |-> chk.delta2,
                    shifted |-> live1, primitive |-> run, x_hat |-> x_hat]
     /\ UNCHANGED <<loader, calc, bp_vars, hist_vars>>

RT_correct(gps, x_hat) ==
  IF rt_snapshots # <<>>
  THEN RT_correct2_tightly(gps, x_hat, rt_snapshots[1].ins_gps)
  ELSE \E g \in GarbageSet :   \* front() of an empty list
         RT_correct2_tightly(gps, x_hat, [clock_error |-> ClockArray(g)])

\* The list of snapshots under steps and measurement ages of every size.
RT_Next ==
  \/ \E e \in ElapsedSet : RT_update(e, ClockArray(<<0, 0>>))
  \/ \E a \in AdvanceSet : RT_setup_correct(a)
  \/ \E gps \in PlainGpsSet : RT_correct(gps, ClockArray(<<0, 0>>))

\* The clock errors under measurements and corrections of every kind.
RTC_Next ==
  \/ \E d \in DriftSet :
       Len(rt_snapshots) < MaxJumpSnapshots /\ RT_update(StepMs, ClockArray(d))
  \/ \E a \in {-StepMs, 0} : RT_setup_correct(a)
  \/ \E gps \in GpsSet, x \in XhatVecSet : RT_correct(gps, ClockArray(x))


(***************************************************************************)
(* Back-Propagate synchronizer (INS_GPS_Back_Propagate)                    *)
(***************************************************************************)
\* snapshot_content_t of INS_GPS_Back_Propagate: the deep copy of the filter
\* and elapsedT_from_last_correct.
BP_snapshot(f, elapsedT) == [ins_gps |-> f, elapsedT |-> elapsedT]

\* INS_GPS_Back_Propagate::setup_back_propagation
BP_setup_back_propagation(depth) ==
  /\ bp_depth' = depth
  /\ bp_last' = [op |-> "setup", seq |-> Flip(bp_last), depth |-> depth]
  /\ UNCHANGED <<loader, calc, bp_snapshots, bp_filter, rt_vars, hist_vars>>

\* before_update_INS without the accumulation over snapshots.back().
before_update_INS_plain(snaps, f, elapsedT) ==
  Append(snaps, BP_snapshot(f, elapsedT))

\* INS_GPS_Back_Propagate::before_update_INS: the snapshot pushed at a time update.
before_update_INS(snaps, f, elapsedT) ==
  Append(snaps,
         BP_snapshot(f, IF snaps # <<>>
                        THEN elapsedT + snaps[Len(snaps)].elapsedT
                        ELSE elapsedT))

BP_update(elapsedT, drift) ==
  /\ Len(bp_snapshots) < MaxSnapshots
  /\ InClockRange(INS_update(bp_filter, drift))
  /\ bp_snapshots' = before_update_INS(bp_snapshots, bp_filter, elapsedT)
  /\ bp_filter' = INS_update(bp_filter, drift)
  /\ bp_last' = [op |-> "update", seq |-> Flip(bp_last), elapsedT |-> elapsedT]
  /\ UNCHANGED <<loader, calc, bp_depth, rt_vars, hist_vars>>

\* bp_walk whose erase takes the whole list.
RECURSIVE bp_walk_clear(_, _, _, _)
bp_walk_clear(snaps, k, mod_elapsedT, depth) ==
  IF k = 0 THEN snaps
  ELSE IF snaps[k].elapsedT < depth
       THEN (IF mod_elapsedT > SufficientMs THEN <<>> ELSE snaps)
       ELSE bp_walk_clear([snaps EXCEPT ![k].elapsedT = @ - mod_elapsedT],
                          k - 1, mod_elapsedT, depth)

\* bp_walk that leaves the elapsedT of the newest snapshot as it is.
RECURSIVE bp_walk_older(_, _, _, _)
bp_walk_older(snaps, k, mod_elapsedT, depth) ==
  IF k = 0 THEN snaps
  ELSE IF snaps[k].elapsedT < depth
       THEN (IF mod_elapsedT > SufficientMs
             THEN SubSeq(snaps, k + 1, Len(snaps))
             ELSE snaps)
       ELSE bp_walk_older(IF k = Len(snaps) THEN snaps
                          ELSE [snaps EXCEPT ![k].elapsedT = @ - mod_elapsedT],
                          k - 1, mod_elapsedT, depth)

\* The loop of before_correct_INS from the reverse iterator at index k on:
\* a snapshot older than the depth ends the walk (erasing it and all older
\* ones when mod_elapsedT > 0.1), any other one is reduced by mod_elapsedT.
RECURSIVE bp_walk(_, _, _, _)
bp_walk(snaps, k, mod_elapsedT, depth) ==
  IF k = 0 THEN snaps
  ELSE IF snaps[k].elapsedT < depth
       THEN (IF mod_elapsedT > SufficientMs
             THEN SubSeq(snaps, k + 1, Len(snaps))
             ELSE snaps)
       ELSE bp_walk([snaps EXCEPT ![k].elapsedT = @ - mod_elapsedT],
                    k - 1, mod_elapsedT, depth)

\* before_correct_INS that corrects every snapshot it keeps.
before_correct_INS_all(snaps, depth, x_hat_s) ==
  IF snaps = <<>> THEN snaps
  ELSE LET mod_elapsedT == snaps[Len(snaps)].elapsedT
           walked == IF mod_elapsedT > 0
                     THEN bp_walk(snaps, Len(snaps), mod_elapsedT, depth)
                     ELSE snaps
       IN [i \in 1 .. Len(walked) |->
             [walked[i] EXCEPT !.ins_gps = correct_primitive(@, x_hat_s)]]

\* INS_GPS_Back_Propagate::before_correct_INS; x_hat_s is the estimate of the
\* filter of the back-propagated snapshot (previous.ins_gps.correct_primitive).
before_correct_INS(snaps, depth, x_hat_s) ==
  IF snaps = <<>> THEN snaps
  ELSE LET mod_elapsedT == snaps[Len(snaps)].elapsedT
           walked == IF mod_elapsedT > 0
                     THEN bp_walk(snaps, Len(snaps), mod_elapsedT, depth)
                     ELSE snaps
       IN IF walked = <<>> THEN walked
          ELSE [walked EXCEPT ![Len(walked)].ins_gps = correct_primitive(@, x_hat_s)]

\* INS_GPS2_Tightly::correct -> correct_with_clock_jump_check on the live
\* filter; correct_primitive calls before_correct_INS and then correct_INS.
BP_correct(gps, x_hat, x_hat_s) ==
  \E chk \in {clock_jump_check(bp_filter, gps)} :
  LET fixed == chk.jump = "fixed"
      run == chk.jump \in {"none", "fixed"}
      live1 == IF fixed THEN shift_clock(bp_filter, gps.clock_index, chk.shift)
               ELSE bp_filter
      snaps2 == IF run THEN before_correct_INS(bp_snapshots, bp_depth, x_hat_s)
                ELSE bp_snapshots
      live2 == IF run THEN correct_primitive(live1, x_hat) ELSE live1
  IN /\ InClockRange(live2)
     /\ \A i \in 1 .. Len(snaps2) : InClockRange(snaps2[i].ins_gps)
     /\ bp_snapshots' = snaps2
     /\ bp_filter' = live2
     /\ bp_last' = [op |-> "correct", seq |-> Flip(bp_last),
                    found |-> Len(bp_snapshots),
                    repeated |-> bp_last.op = "correct" /\ bp_last.primitive,
                    clock_index |-> gps.clock_index, jump |-> chk.jump,
                    shift |-> chk.shift, delta |-> chk.delta,
                    delta2 |-> chk.delta2, shifted |-> live1, primitive |-> run,
                    x_hat |-> x_hat, x_hat_s |-> x_hat_s]
     /\ UNCHANGED <<loader, calc, bp_depth, rt_vars, hist_vars>>

BP_Next ==
  \/ \E d \in DepthSet : BP_setup_back_propagation(d)
  \/ \E e \in BP_ElapsedSet : BP_update(e, ClockArray(<<0, 0>>))
  \/ \E gps \in PlainGpsSet, xs \in XhatVecSet :
       BP_correct(gps, ClockArray(<<0, 0>>), ClockArray(xs))

\* Back-Propagate with the default back_propagate_depth and one IMU rate.
Cyc_Next ==
  \/ BP_update(StepMs, ClockArray(<<0, 0>>))
  \/ \E gps \in PlainGpsSet, x \in XhatVecSet, xs \in XhatVecSet :
       BP_correct(gps, ClockArray(x), ClockArray(xs))

\* Both facades under the measurements of SkipGpsSet.
TC_Next ==
  \/ \E d \in DriftSet :
       Len(rt_snapshots) < MaxJumpSnapshots /\ RT_update(StepMs, ClockArray(d))
  \/ \E gps \in SkipGpsSet : RT_correct(gps, ClockArray(<<0, 0>>))
  \/ Len(bp_snapshots) < MaxJumpSnapshots
       /\ BP_update(StepMs, ClockArray(<<0, 0>>))
  \/ \E gps \in SkipGpsSet :
       BP_correct(gps, ClockArray(<<0, 0>>), ClockArray(<<0, 0>>))

(***************************************************************************)
(* Ephemeris history of a satellite (PropertyHistory<Ephemeris>)           *)
(***************************************************************************)
MaxHistory == 3   \* items of a history, the placeholder included
MaxPriority == 2  \* |priority| the adds are explored up to
MaxListNew == 8   \* items of list_new a merge() is followed up to
MaxRegistered == 4 \* items of a history that is never merged

seconds_week == 604800
TimeQuantization == 10
sf_t_oc == 16            \* raw_t::sf[SF_t_oc] = 2^4 s
FourHours == 14400       \* 4 * 60 * 60
OneHour == 3600          \* 1 * 60 * 60

\* GPS_Time and GPS_Time::serialize
gps_time_t(week, seconds) == [week |-> week, seconds |-> seconds]
serialize(t) == t.seconds + seconds_week * t.week

\* An Ephemeris: body stands for all the fields is_equivalent compares other
\* than WN and t_oc (URA, SV_health and the scaled parameters).
Ephemeris(WN, t_oc, fit_interval, body) ==
  [WN |-> WN, t_oc |-> t_oc, fit_interval |-> fit_interval, body |-> body]

base_time(eph) == gps_time_t(eph.WN, eph.t_oc)

\* Ephemeris::is_equivalent: fit_interval is not compared.
is_equivalent(a, b) ==
  /\ a.WN = b.WN
  /\ a.body = b.body
  /\ Abs(a.t_oc - b.t_oc) <= sf_t_oc

\* Ephemeris::period_from_time_of_clock = -t.interval(WN, t_oc)
period_from_time_of_clock(eph, t) ==
  -(eph.t_oc - t.seconds + (eph.WN - t.week) * seconds_week)

\* Twice Ephemeris::period_from_first_valid_transmittion, which keeps the
\* half of an odd fit_interval (-1 of the placeholder) an integer.
period_from_first_valid_transmittion2(eph, t) ==
  2 * period_from_time_of_clock(eph, t) + eph.fit_interval

\* Ephemeris::is_valid
is_valid(eph, t) ==
  2 * Abs(period_from_time_of_clock(eph, t)) <= eph.fit_interval

\* Ephemeris::maybe_better_one_avilable
maybe_better_one_avilable(eph, t) ==
  LET delta_t2 == period_from_first_valid_transmittion2(eph, t)
      transmittion_interval2 == IF eph.fit_interval > FourHours
                                THEN eph.fit_interval
                                ELSE 2 * OneHour
  IN ~(delta_t2 >= 0 /\ delta_t2 < transmittion_interval2)

\* item_t::calc_t_tag = floor((t + 0.5 * TimeQuantization) / TimeQuantization)
calc_t_tag(t) == (2 * serialize(t) + TimeQuantization) \div (2 * TimeQuantization)

\* item_t(prop, priority_init)
item_t(eph, priority) ==
  [WN |-> eph.WN, t_oc |-> eph.t_oc, fit_interval |-> eph.fit_interval,
   body |-> eph.body, priority |-> priority,
   t_tag |-> calc_t_tag(base_time(eph))]

\* item_t::operator=(const PropertyT &): the priority is kept.
item_assign(item, eph) == item_t(eph, item.priority)

\* PropertyHistory() followed by the body of Satellite(): one item, the
\* invalid ephemeris; its t_tag stays the 0 of item_t().
NewHistory ==
  <<[WN |-> 0, t_oc |-> 0, fit_interval |-> -1, body |-> "none",
     priority |-> 0, t_tag |-> 0]>>

\* PropertyHistory::current / Satellite::ephemeris
current(h, sel) == h[sel + 1]

\* vector::insert before the 0-based position pos
InsertAt(h, pos, item) ==
  SubSeq(h, 1, pos) \o <<item>> \o SubSeq(h, pos + 1, Len(h))

\* The item at 0-based position from taken out and put in at position to.
MoveItem(h, from, to) ==
  LET item == h[from + 1]
      rest == SubSeq(h, 1, from) \o SubSeq(h, from + 2, Len(h))
  IN InsertAt(rest, to, item)

\* add(): the loop over the items having the time stamp of the new item,
\* the reverse iterator at 0-based index k.
RECURSIVE add_same(_, _, _, _, _, _)
add_same(h, item, t_tag_new, priority_delta, k, it_insert) ==
  IF ~is_equivalent(h[k + 1], item)
  THEN LET ins == IF h[k + 1].priority <= priority_delta THEN k ELSE it_insert
       IN IF k = 0 \/ h[k].t_tag < t_tag_new
          THEN [found |-> FALSE, pos |-> ins]
          ELSE add_same(h, item, t_tag_new, priority_delta, k - 1, ins)
  ELSE [found |-> TRUE, pos |-> k]

\* add(): the reverse loop looking for the place of the new item.
RECURSIVE add_scan(_, _, _, _, _)
add_scan(h, item, t_tag_new, priority_delta, k) ==
  IF k < 0 THEN [found |-> FALSE, pos |-> 0]
  ELSE LET delta_t_tag == t_tag_new - h[k + 1].t_tag
       IN IF delta_t_tag < 0
          THEN add_scan(h, item, t_tag_new, priority_delta, k - 1)
          ELSE IF delta_t_tag > 0
               THEN [found |-> FALSE, pos |-> k + 1]
               ELSE add_same(h, item, t_tag_new, priority_delta, k, k + 1)

\* back_count of an add() that leaves the item where it is.
back_count_none(h, k, t_tag_new, pr) == 0

\* add(): how many items before the 0-based index k the item of priority pr
\* moves backward over (same time stamp, priority the same or lower).
RECURSIVE back_count(_, _, _, _)
back_count(h, k, t_tag_new, pr) ==
  IF k >= 1 /\ h[k].t_tag = t_tag_new /\ h[k].priority <= pr
  THEN 1 + back_count(h, k - 1, t_tag_new, pr)
  ELSE 0

\* add(): how many items after the 0-based index k the item of priority pr
\* moves forward over (same time stamp, higher priority).
RECURSIVE forward_count(_, _, _, _)
forward_count(h, k, t_tag_new, pr) ==
  IF k + 2 <= Len(h) /\ h[k + 2].t_tag = t_tag_new /\ h[k + 2].priority > pr
  THEN 1 + forward_count(h, k + 1, t_tag_new, pr)
  ELSE 0

\* add_equivalent that inserts the new item next to the equivalent one.
add_equivalent_dup(h, sel, item, priority_delta, k, t_tag_new) ==
  [history |-> InsertAt(h, k + 1, item_t(item, priority_delta)),
   selected_index |-> sel]

\* add(): the item at 0-based index k is equivalent to the new one.
add_equivalent(h, sel, item, priority_delta, k, t_tag_new) ==
  IF priority_delta = 0
  THEN [history |-> [h EXCEPT ![k + 1] = item_assign(@, item)],
        selected_index |-> sel]
  ELSE LET rel_pos == sel - k
           h1 == [h EXCEPT ![k + 1].priority = @ + priority_delta]
           pr == h1[k + 1].priority
           shift == IF priority_delta > 0
                    THEN -back_count(h1, k, t_tag_new, pr)
                    ELSE forward_count(h1, k, t_tag_new, pr)
       IN [history |-> MoveItem(h1, k, k + shift),
           selected_index |->
             IF rel_pos = 0 THEN sel + shift
             ELSE IF rel_pos < 0 /\ shift <= rel_pos THEN sel + 1
             ELSE IF rel_pos > 0 /\ shift >= rel_pos THEN sel - 1
             ELSE sel]

\* add(): "insert new one".
add_insert(h, sel, item, priority_delta, it_insert) ==
  [history |-> InsertAt(h, it_insert, item_t(item, priority_delta)),
   selected_index |-> IF it_insert < sel THEN sel + 1 ELSE sel]

\* PropertyHistory::add
add(h, sel, item, priority_delta) ==
  LET t_tag_new == calc_t_tag(base_time(item))
      at == add_scan(h, item, t_tag_new, priority_delta, Len(h) - 1)
  IN IF at.found
     THEN add_equivalent(h, sel, item, priority_delta, at.pos, t_tag_new)
     ELSE add_insert(h, sel, item, priority_delta, at.pos)

\* select(): the loop over the 0-based indices i .. last - 1.
RECURSIVE select_scan(_, _, _, _, _)
select_scan(h, t, i, last, st) ==
  IF i >= last THEN st
  ELSE LET it == h[i + 1]
           delta_t2 == Abs(period_from_first_valid_transmittion2(it, t))
           st1 == IF st.changed /\ st.t_tag = it.t_tag THEN st
                  ELSE IF ~is_valid(it, t) THEN st
                  ELSE IF st.delta_t > delta_t2
                       THEN [changed |-> TRUE, t_tag |-> it.t_tag,
                             delta_t |-> delta_t2, selected_index |-> i]
                       ELSE st
       IN select_scan(h, t, i + 1, last, st1)

\* select() that searches the older records whatever the sign of delta_t.
select_older(h, sel, t) ==
  LET delta_t == period_from_first_valid_transmittion2(h[sel + 1], t)
  IN select_scan(h, t, 0, sel,
                 [changed |-> FALSE, t_tag |-> h[sel + 1].t_tag,
                  delta_t |-> Abs(delta_t), selected_index |-> sel])

\* PropertyHistory::select with is_valid = Ephemeris::is_valid and
\* get_delta_t = Ephemeris::period_from_first_valid_transmittion.
select(h, sel, t) ==
  LET delta_t == period_from_first_valid_transmittion2(h[sel + 1], t)
      newer == delta_t >= 0
  IN select_scan(h, t,
                 IF newer THEN sel + 1 ELSE 0,
                 IF newer THEN Len(h) ELSE sel,
                 [changed |-> FALSE, t_tag |-> h[sel + 1].t_tag,
                  delta_t |-> Abs(delta_t), selected_index |-> sel])

\* select_ephemeris without the conservative return.
select_ephemeris_eager(h, sel, t) ==
  LET valid == is_valid(current(h, sel), t)
      r == select(h, sel, t)
  IN [ret |-> r.changed \/ valid,
      selected_index |-> r.selected_index, changed |-> r.changed,
      conservative |-> valid /\ ~maybe_better_one_avilable(current(h, sel), t)]

\* select_ephemeris returning what PropertyHistory::select returns.
select_ephemeris_changed(h, sel, t) ==
  LET valid == is_valid(current(h, sel), t)
  IN IF valid /\ ~maybe_better_one_avilable(current(h, sel), t)
     THEN [ret |-> TRUE, selected_index |-> sel, changed |-> FALSE,
           conservative |-> TRUE]
     ELSE LET r == select(h, sel, t)
          IN [ret |-> r.changed, selected_index |-> r.selected_index,
              changed |-> r.changed, conservative |-> FALSE]

\* Satellite::select_ephemeris
select_ephemeris(h, sel, t) ==
  LET valid == is_valid(current(h, sel), t)
  IN IF valid /\ ~maybe_better_one_avilable(current(h, sel), t)
     THEN [ret |-> TRUE, selected_index |-> sel, changed |-> FALSE,
           conservative |-> TRUE]
     ELSE LET r == select(h, sel, t)
          IN [ret |-> r.changed \/ valid,
              selected_index |-> r.selected_index, changed |-> r.changed,
              conservative |-> FALSE]

\* Ephemerides registered: e_a4 is equivalent to e_a and falls into its time
\* bucket, e_b shares the bucket but differs, e_old is older with a fit
\* interval of 8 hours, e_new is two hours newer.
e_a == Ephemeris(1, 7200, 14400, "a")
e_a4 == Ephemeris(1, 7204, 14400, "a")
e_b == Ephemeris(1, 7200, 14400, "b")
e_old == Ephemeris(1, 3600, 28800, "a")
e_new == Ephemeris(1, 14400, 14400, "a")
EphSet == {e_a, e_a4, e_b, e_old, e_new}
\* A third record of the bucket of e_a and e_b.
e_c == Ephemeris(1, 7200, 14400, "c")
\* e_a one LSB of t_oc later: equivalent to e_a, in another time bucket.
e_a16 == Ephemeris(1, 7216, 14400, "a")
RegEphSet == {e_a, e_a4, e_a16, e_b, e_c}
\* Two ephemerides across a week rollover, two minutes apart.
r_a == Ephemeris(1, 604740, 14400, "a")
r_b == Ephemeris(2, 60, 14400, "a")
RollEphSet == {r_a, r_b, e_a, e_new}
RollTimeSet == {gps_time_t(1, 600000), gps_time_t(1, 604790),
                gps_time_t(2, 100), gps_time_t(1, 7200),
                gps_time_t(1, 10000)}
PriorityDeltaSet == {-1, 0, 1}
TimeSet == {gps_time_t(1, 1000), gps_time_t(1, 7000), gps_time_t(1, 7200),
            gps_time_t(1, 15000)}

\* Histories handed to merge(): those of satellites that registered some
\* of the ephemerides.
Registered(h, eph) == add(h, 0, eph, 1).history
AnotherSet ==
  {NewHistory,
   Registered(NewHistory, e_a),
   Registered(NewHistory, e_b),
   Registered(Registered(NewHistory, e_a), e_new)}

MergeIdle ==
  [pc |-> "idle", it1 |-> 0, it2 |-> 0, list_new |-> <<>>,
   current_index_new |-> 0, shift_count |-> 0, keep_original |-> TRUE]

\* Satellite::register_ephemeris on a history of at most max items.
Hist_add_upto(eph, priority_delta, max) ==
  /\ merge_st.pc = "idle"
  /\ \E r \in {add(history, selected_index, eph, priority_delta)} :
       /\ Len(r.history) <= max
       /\ \A i \in 1 .. Len(r.history) : Abs(r.history[i].priority) <= MaxPriority
       /\ history' = r.history
       /\ selected_index' = r.selected_index
  /\ hist_last' = [op |-> "add", seq |-> Flip(hist_last), item |-> eph,
                   priority_delta |-> priority_delta]
  /\ UNCHANGED <<loader, calc, another, merge_st, rt_vars, bp_vars>>

\* Satellite::register_ephemeris
Hist_add(eph, priority_delta) == Hist_add_upto(eph, priority_delta, MaxHistory)

\* Satellite::select_ephemeris
Hist_select(t) ==
  /\ merge_st.pc = "idle"
  /\ \E r \in {select_ephemeris(history, selected_index, t)} :
       /\ selected_index' = r.selected_index
       /\ hist_last' = [op |-> "select", seq |-> Flip(hist_last), t |-> t,
                        before |-> selected_index,
                        ret |-> r.ret, changed |-> r.changed,
                        conservative |-> r.conservative]
  /\ UNCHANGED <<loader, calc, history, another, merge_st, rt_vars, bp_vars>>

\* merge() whose shift_count starts at selected_index.
Hist_merge_begin_off(an, keep_original) ==
  /\ merge_st.pc = "idle"
  /\ another' = an
  /\ merge_st' = [pc |-> "loop", it1 |-> 1, it2 |-> 1,
                  list_new |-> <<history[1]>>,
                  current_index_new |-> selected_index,
                  shift_count |-> selected_index,
                  keep_original |-> keep_original]
  /\ hist_last' = [op |-> "merge_begin", seq |-> Flip(hist_last)]
  /\ UNCHANGED <<loader, calc, history, selected_index, rt_vars, bp_vars>>

\* PropertyHistory::merge up to its outer loop.
Hist_merge_begin(an, keep_original) ==
  /\ merge_st.pc = "idle"
  /\ another' = an
  /\ merge_st' = [pc |-> "loop", it1 |-> 1, it2 |-> 1,
                  list_new |-> <<history[1]>>,
                  current_index_new |-> selected_index,
                  shift_count |-> selected_index - 1,
                  keep_original |-> keep_original]
  /\ hist_last' = [op |-> "merge_begin", seq |-> Flip(hist_last)]
  /\ UNCHANGED <<loader, calc, history, selected_index, rt_vars, bp_vars>>

\* One pass of while(true) with both iterators short of their end.
Hist_merge_step ==
  /\ merge_st.pc = "loop"
  /\ merge_st.it1 < Len(history)
  /\ merge_st.it2 < Len(another)
  /\ LET i1 == history[merge_st.it1 + 1]
         i2 == another[merge_st.it2 + 1]
         delta_t == i1.t_tag - i2.t_tag
         use_it1 == ~(\/ delta_t = 0 /\ i1.priority < i2.priority
                      \/ delta_t > 0)
     IN merge_st' =
          IF delta_t = 0 /\ is_equivalent(i1, i2)
          THEN [merge_st EXCEPT
                  !.list_new = Append(@, IF merge_st.keep_original THEN i1 ELSE i2),
                  !.it1 = @ + 1, !.it2 = @ + 1, !.shift_count = @ - 1]
          ELSE IF use_it1
          THEN [merge_st EXCEPT
                  !.list_new = Append(@, i1),
                  !.it1 = @ + 1, !.shift_count = @ - 1]
          ELSE [merge_st EXCEPT
                  !.list_new = Append(@, i2),
                  !.it2 = @ + 1,
                  !.current_index_new =
                     IF merge_st.shift_count >= 0 THEN @ + 1 ELSE @]
  /\ hist_last' = [op |-> "merge_step", seq |-> Flip(hist_last)]
  /\ UNCHANGED <<loader, calc, history, selected_index, another, rt_vars, bp_vars>>

\* One pass of an inner while: one history is at its end, the item the other
\* iterator points to is pushed and the iterator is left where it is.
Hist_merge_tail ==
  /\ merge_st.pc = "loop"
  /\ Len(merge_st.list_new) < MaxListNew
  /\ \/ /\ merge_st.it1 = Len(history)
        /\ merge_st.it2 < Len(another)
        /\ merge_st' = [merge_st EXCEPT
                          !.list_new = Append(@, another[merge_st.it2 + 1])]
     \/ /\ merge_st.it1 < Len(history)
        /\ merge_st.it2 = Len(another)
        /\ merge_st' = [merge_st EXCEPT
                          !.list_new = Append(@, history[merge_st.it1 + 1])]
  /\ hist_last' = [op |-> "merge_tail", seq |-> Flip(hist_last)]
  /\ UNCHANGED <<loader, calc, history, selected_index, another, rt_vars, bp_vars>>

\* The break of an inner while that has nothing left, and the two
\* assignments that end merge().
Hist_merge_finish ==
  /\ merge_st.pc = "loop"
  /\ merge_st.it1 = Len(history)
  /\ merge_st.it2 = Len(another)
  /\ history' = merge_st.list_new
  /\ selected_index' = merge_st.current_index_new
  /\ merge_st' = MergeIdle
  /\ hist_last' = [op |-> "merge_finish", seq |-> Flip(hist_last),
                   before |-> selected_index]
  /\ UNCHANGED <<loader, calc, another, rt_vars, bp_vars>>

Hist_Next ==
  \/ \E eph \in EphSet, dp \in PriorityDeltaSet : Hist_add(eph, dp)
  \/ \E t \in TimeSet : Hist_select(t)
  \/ \E an \in AnotherSet, keep \in BOOLEAN : Hist_merge_begin(an, keep)
  \/ Hist_merge_step
  \/ Hist_merge_tail
  \/ Hist_merge_finish

\* A satellite whose history is only registered to and selected from.
Reg_Next ==
  \/ \E eph \in RegEphSet, dp \in PriorityDeltaSet :
       Hist_add_upto(eph, dp, MaxRegistered)
  \/ \E t \in TimeSet : Hist_select(t)

(***************************************************************************)
(* Real-Time synchronizer: compensation of H and R (correct_with_info)     *)
(***************************************************************************)
\* Exact fractions in lowest terms with a positive denominator stand for the
\* floating point entries; the filter has one state, H, R, A, Phi_inv and
\* GQGt are 1 x 1 matrices.
RECURSIVE GCD(_, _)
GCD(a, b) == IF b = 0 THEN a ELSE GCD(b, a % b)

Rat(n, d) ==
  LET g == GCD(Abs(n), Abs(d))
      sgn == IF d < 0 THEN -1 ELSE 1
  IN [n |-> sgn * (n \div g), d |-> sgn * (d \div g)]

RatInt(i) == [n |-> i, d |-> 1]
RatMul(a, b) == Rat(a.n * b.n, a.d * b.d)
RatAdd(a, b) ==
  LET l == (a.d \div GCD(a.d, b.d)) * b.d
  IN Rat(a.n * (l \div a.d) + b.n * (l \div b.d), l)
RatNeg(a) == [n |-> -a.n, d |-> a.d]
RatSub(a, b) == RatAdd(a, RatNeg(b))
RatInv(a) == Rat(a.d, a.n)

RT_NORMAL == "RT_NORMAL"
RT_LIGHT_WEIGHT == "RT_LIGHT_WEIGHT"

\* The matrices of snapshot_content_t that before_update_INS stores:
\* A, Phi_inv = (I + A * elapsedT)^-1, GQGt, elapsedT_from_last_update.
RT_matrices(A, GQGt, elapsedT) ==
  [A |-> A, Phi_inv |-> RatInv(RatAdd(RatInt(1), RatMul(A, elapsedT))),
   GQGt |-> GQGt, elapsedT |-> elapsedT]

\* correct_with_info, case RT_NORMAL: the loop over the snapshots from i on.
RECURSIVE cwi_normal(_, _, _, _)
cwi_normal(snaps, i, H, R) ==
  IF i > Len(snaps) THEN [H |-> H, R |-> R]
  ELSE LET H1 == RatMul(H, snaps[i].Phi_inv)
       IN cwi_normal(snaps, i + 1, H1,
                     RatAdd(R, RatMul(RatMul(H1, snaps[i].GQGt), H1)))

\* The sums of the RT_LIGHT_WEIGHT loop over the snapshots from i on.
RECURSIVE cwi_sums(_, _, _)
cwi_sums(snaps, i, acc) ==
  IF i > Len(snaps) THEN acc
  ELSE cwi_sums(snaps, i + 1,
                [sum_A |-> RatAdd(acc.sum_A, snaps[i].A),
                 sum_GQGt |-> RatAdd(acc.sum_GQGt, snaps[i].GQGt),
                 bar_delteT |-> RatAdd(acc.bar_delteT, snaps[i].elapsedT)])

\* correct_with_info, case RT_LIGHT_WEIGHT.
cwi_light_weight(snaps, H, R) ==
  IF snaps = <<>> THEN [H |-> H, R |-> R]
  ELSE LET n == Len(snaps)
           sums == cwi_sums(snaps, 1, [sum_A |-> RatInt(0), sum_GQGt |-> RatInt(0),
                                       bar_delteT |-> RatInt(0)])
           bar_delteT == RatMul(sums.bar_delteT, Rat(1, n))
           sum_A_GQGt == RatMul(sums.sum_A, sums.sum_GQGt)
           inner == RatSub(sums.sum_GQGt,
                           RatMul(RatAdd(sum_A_GQGt, sum_A_GQGt),
                                  RatMul(bar_delteT, Rat(n - 1, 2 * n))))
       IN [R |-> RatAdd(R, RatMul(RatMul(H, inner), H)),
           H |-> RatMul(H, RatSub(RatInt(1), RatMul(sums.sum_A, bar_delteT)))]

\* correct_with_info with both modes taking the RT_NORMAL branch.
correct_with_info_normal(rt_mode, snaps, H, R) == cwi_normal(snaps, 1, H, R)

\* INS_GPS_RealTime::correct_with_info: H and R handed to correct_primitive.
correct_with_info(rt_mode, snaps, H, R) ==
  IF rt_mode = RT_LIGHT_WEIGHT THEN cwi_light_weight(snaps, H, R)
  ELSE cwi_normal(snaps, 1, H, R)

\* Inputs: system matrices, process noise images, IMU steps, H and R.
ASet == {RatInt(0), RatInt(1), RatInt(-2)}
GQGtSet == {RatInt(0), RatInt(1)}
DeltaTSet == {Rat(1, 4), RatInt(1)}
HSet == {RatInt(0), RatInt(1), RatInt(3)}
RSet == {RatInt(1), RatInt(2)}
MatricesSet ==
  {RT_matrices(x[1], x[2], x[3]) :
     x \in {y \in ASet \X GQGtSet \X DeltaTSet :
              RatMul(y[1], y[3]) # RatInt(-1)}}
MaxCompensated == 1
MatricesLists ==
  UNION {[1 .. n -> MatricesSet] : n \in 0 .. MaxCompensated}

\* correct_with_info on a list of retained snapshots.
RT_correct_with_info(rt_mode, snaps, H, R) ==
  /\ \E r \in {correct_with_info(rt_mode, snaps, H, R)} :
       calc' = [op |-> "correct_with_info", rt_mode |-> rt_mode,
                snapshots |-> snaps, H_in |-> H, R_in |-> R,
                H |-> r.H, R |-> r.R]
  /\ UNCHANGED <<rt_vars, bp_vars, hist_vars, loader>>

Mode_Next ==
  \E rt_mode \in {RT_NORMAL, RT_LIGHT_WEIGHT}, snaps \in MatricesLists,
     H \in HSet, R \in RSet :
    RT_correct_with_info(rt_mode, snaps, H, R)

(***************************************************************************)
(* DataParser and BroadcastedMessage: words are sequences of bits, most    *)
(* significant bit first, so that the width of every C type is kept        *)
(***************************************************************************)
Fill(n, bit) == [i \in 1 .. n |-> bit]
\* Conversion to an integer type of w bits: truncation, or zero extension of
\* an unsigned value.
Conv(x, w) ==
  IF Len(x) >= w THEN SubSeq(x, Len(x) - w + 1, Len(x))
  ELSE Fill(w - Len(x), 0) \o x
\* Integer promotion of the operand of << >> | : types narrower than int
\* become int; the buffers and outputs promoted here are unsigned.
Promote(x) == IF Len(x) < 32 THEN Conv(x, 32) ELSE x
\* und is what a build may leave behind: und.word is the bit found in
\* storage that was never written, und.shift the bit a shift by a negative
\* count or by the width or more is filled with.
Shl(x, k, und) ==
  IF 0 <= k /\ k < Len(x) THEN SubSeq(x, k + 1, Len(x)) \o Fill(k, 0)
  ELSE Fill(Len(x), und.shift)
Shr(x, k, und) ==
  IF 0 <= k /\ k < Len(x) THEN Fill(k, 0) \o SubSeq(x, 1, Len(x) - k)
  ELSE Fill(Len(x), und.shift)
\* >> of a signed value.
Sar(x, k, und) ==
  IF 0 <= k /\ k < Len(x) THEN Fill(k, x[1]) \o SubSeq(x, 1, Len(x) - k)
  ELSE Fill(Len(x), und.shift)
BitOr(x, y) == [i \in 1 .. Len(x) |-> IF x[i] = 1 \/ y[i] = 1 THEN 1 ELSE 0]
\* res |= v for res of an output type and v of a promoted type.
OrAssign(res, v) == BitOr(res, Conv(v, Len(res)))
\* buf[quot]; past the end of the array the word is whatever lies there.
ReadWord(buf, quot, L, und) ==
  IF quot + 1 <= Len(buf) THEN buf[quot + 1]
  ELSE Fill(L.input_bits, und.word)

\* bits2num<OutputT, Effective, PaddingMSB>(buf, index), with the two
\* variants of bits2num_t<OutputT, InputT, Effective, PaddingMSB, bool>::run.
bits2num(buf, index, output_bits, L, und) ==
  LET input_bits == L.input_bits
      Effective == L.EffectiveBits
      PaddingMSB == L.PaddingMSB
      \* The variant for an output no wider than the effective bits.
      bits2num_t_smaller ==
        LET padding_bits_MSB_abs ==
              IF PaddingMSB >= 0 THEN PaddingMSB ELSE -PaddingMSB
            quot == index \div Effective
            rem == index % Effective
            left_shift == rem + PaddingMSB
        IN IF PaddingMSB >= 0 THEN
             LET res == Conv(Shr(Shl(Promote(ReadWord(buf, quot, L, und)),
                                     rem + padding_bits_MSB_abs, und),
                                 input_bits - output_bits, und), output_bits)
             IN IF rem > Effective - output_bits
                THEN OrAssign(res,
                       Shr(Shl(Promote(ReadWord(buf, quot + 1, L, und)),
                               padding_bits_MSB_abs, und),
                           Effective + (input_bits - output_bits) - rem, und))
                ELSE res
           ELSE
             LET res == Conv(Shr(Shl(Promote(ReadWord(buf, quot, L, und)),
                                     IF left_shift >= 0 THEN left_shift ELSE 0,
                                     und),
                                 input_bits - output_bits
                                   + (IF left_shift >= 0 THEN 0 ELSE -left_shift),
                                 und), output_bits)
             IN IF rem > Effective - output_bits
                THEN OrAssign(res,
                       Shr(Promote(ReadWord(buf, quot + 1, L, und)),
                           Effective + padding_bits_MSB_abs
                             + (input_bits - output_bits) - rem, und))
                ELSE res
      \* (buf[q] & effective_mask) >> shift_after_mask of the second variant.
      masked_word(q) ==
        LET BitAnd(x, y) ==
              [i \in 1 .. Len(x) |-> IF x[i] = 1 /\ y[i] = 1 THEN 1 ELSE 0]
            effective_mask_shift == IF PaddingMSB <= 0 THEN 0 ELSE PaddingMSB - 1
            effective_mask ==
              IF PaddingMSB <= 0 THEN Fill(input_bits, 1)
              ELSE Conv(Shr(Promote(<<0>> \o Fill(input_bits - 1, 1)),
                            effective_mask_shift, und), input_bits)
            shift_after_mask == IF PaddingMSB < 0 THEN -PaddingMSB ELSE 0
        IN Shr(Promote(BitAnd(ReadWord(buf, q, L, und), effective_mask)),
               shift_after_mask, und)
      padding_bits_LSB == input_bits - Effective - PaddingMSB
      padding_bits_LSB_abs ==
        IF padding_bits_LSB >= 0 THEN padding_bits_LSB ELSE -padding_bits_LSB
      \* The loop of the second variant: i words are still to be taken.
      RECURSIVE bits2num_t_loop(_, _, _)
      bits2num_t_loop(q, i, res) ==
        IF i <= 0 THEN [res |-> res, quot |-> q]
        ELSE
          LET shifted == Conv(Shl(Promote(res), Effective, und), Len(res))
              word == IF padding_bits_LSB >= 0
                      THEN Shr(masked_word(q), padding_bits_LSB_abs, und)
                      ELSE Shl(masked_word(q), padding_bits_LSB_abs, und)
          IN bits2num_t_loop(q + 1, i - 1, OrAssign(shifted, word))
      \* The variant for an output wider than the effective bits.
      bits2num_t_larger ==
        LET rem == index % Effective
            looped == bits2num_t_loop(index \div Effective,
                                      output_bits \div Effective,
                                      Fill(output_bits, 0))
            last_shift == rem + (output_bits % Effective)
        IN IF last_shift > 0
           THEN OrAssign(
                  Conv(Shl(Promote(looped.res), last_shift, und), output_bits),
                  Shr(masked_word(looped.quot),
                      Effective + padding_bits_LSB - last_shift, und))
           ELSE looped.res
  IN IF Effective >= output_bits THEN bits2num_t_smaller
     ELSE bits2num_t_larger

\* bits2num<OutputT, Effective, PaddingMSB>(buf, index, length)
bits2num_length(buf, index, length, output_bits, L, und) ==
  Conv(Shr(Promote(bits2num(buf, index, output_bits, L, und)),
           output_bits - length, und), output_bits)

\* The extractors of BroadcastedMessage and of its sub frames.
Fields ==
  <<
     [name |-> "preamble", kind |-> "convert_u", bits |-> 8,
      offset_bits1 |-> 0, length1 |-> 8, offset_bits2 |-> 0, length2 |-> 0],
     [name |-> "how", kind |-> "convert_u", bits |-> 32,
      offset_bits1 |-> 30, length1 |-> 24, offset_bits2 |-> 0, length2 |-> 0],
     [name |-> "subframe_id", kind |-> "convert_u", bits |-> 8,
      offset_bits1 |-> 49, length1 |-> 3, offset_bits2 |-> 0, length2 |-> 0],
     [name |-> "SubFrame1::WN", kind |-> "convert_u", bits |-> 16,
      offset_bits1 |-> 60, length1 |-> 10, offset_bits2 |-> 0, length2 |-> 0],
     [name |-> "SubFrame1::URA", kind |-> "convert_u", bits |-> 8,
      offset_bits1 |-> 72, length1 |-> 4, offset_bits2 |-> 0, length2 |-> 0],
     [name |-> "SubFrame1::SV_health", kind |-> "convert_u", bits |-> 8,
      offset_bits1 |-> 76, length1 |-> 6, offset_bits2 |-> 0, length2 |-> 0],
     [name |-> "SubFrame1::iodc", kind |-> "convert_u_2", bits |-> 16,
      offset_bits1 |-> 82, length1 |-> 2, offset_bits2 |-> 210, length2 |-> 8],
     [name |-> "SubFrame1::t_GD", kind |-> "convert_s", bits |-> 8,
      offset_bits1 |-> 196, length1 |-> 8, offset_bits2 |-> 0, length2 |-> 0],
     [name |-> "SubFrame1::t_oc", kind |-> "convert_u", bits |-> 16,
      offset_bits1 |-> 218, length1 |-> 16, offset_bits2 |-> 0, length2 |-> 0],
     [name |-> "SubFrame1::a_f2", kind |-> "convert_s", bits |-> 8,
      offset_bits1 |-> 240, length1 |-> 8, offset_bits2 |-> 0, length2 |-> 0],
     [name |-> "SubFrame1::a_f1", kind |-> "convert_s", bits |-> 16,
      offset_bits1 |-> 248, length1 |-> 16, offset_bits2 |-> 0, length2 |-> 0],
     [name |-> "SubFrame1::a_f0", kind |-> "convert_s", bits |-> 32,
      offset_bits1 |-> 270, length1 |-> 22, offset_bits2 |-> 0, length2 |-> 0],
     [name |-> "SubFrame2::iode", kind |-> "convert_u", bits |-> 8,
      offset_bits1 |-> 60, length1 |-> 8, offset_bits2 |-> 0, length2 |-> 0],
     [name |-> "SubFrame2::c_rs", kind |-> "convert_s", bits |-> 16,
      offset_bits1 |-> 68, length1 |-> 16, offset_bits2 |-> 0, length2 |-> 0],
     [name |-> "SubFrame2::delta_n", kind |-> "convert_s", bits |-> 16,
      offset_bits1 |-> 90, length1 |-> 16, offset_bits2 |-> 0, length2 |-> 0],
     [name |-> "SubFrame2::M0", kind |-> "convert_s_2", bits |-> 32,
      offset_bits1 |-> 106, length1 |-> 8, offset_bits2 |-> 120, length2 |-> 24],
     [name |-> "SubFrame2::c_uc", kind |-> "convert_s", bits |-> 16,
      offset_bits1 |-> 150, length1 |-> 16, offset_bits2 |-> 0, length2 |-> 0],
     [name |-> "SubFrame2::e", kind |-> "convert_u_2", bits |-> 32,
      offset_bits1 |-> 166, length1 |-> 8, offset_bits2 |-> 180, length2 |-> 24],
     [name |-> "SubFrame2::c_us", kind |-> "convert_s", bits |-> 16,
      offset_bits1 |-> 210, length1 |-> 16, offset_bits2 |-> 0, length2 |-> 0],
     [name |-> "SubFrame2::sqrt_A", kind |-> "convert_u_2", bits |-> 32,
      offset_bits1 |-> 226, length1 |-> 8, offset_bits2 |-> 240, length2 |-> 24],
     [name |-> "SubFrame2::t_oe", kind |-> "convert_u", bits |-> 16,
      offset_bits1 |-> 270, length1 |-> 16, offset_bits2 |-> 0, length2 |-> 0],
     [name |-> "SubFrame2::fit", kind |-> "convert_u", bits |-> 8,
      offset_bits1 |-> 286, length1 |-> 1, offset_bits2 |-> 0, length2 |-> 0],
     [name |-> "SubFrame3::c_ic", kind |-> "convert_s", bits |-> 16,
      offset_bits1 |-> 60, length1 |-> 16, offset_bits2 |-> 0, length2 |-> 0],
     [name |-> "SubFrame3::Omega0", kind |-> "convert_s_2", bits |-> 32,
      offset_bits1 |-> 76, length1 |-> 8, offset_bits2 |-> 90, length2 |-> 24],
     [name |-> "SubFrame3::c_is", kind |-> "convert_s", bits |-> 16,
      offset_bits1 |-> 120, length1 |-> 16, offset_bits2 |-> 0, length2 |-> 0],
     [name |-> "SubFrame3::i0", kind |-> "convert_s_2", bits |-> 32,
      offset_bits1 |-> 136, length1 |-> 8, offset_bits2 |-> 150, length2 |-> 24],
     [name |-> "SubFrame3::c_rc", kind |-> "convert_s", bits |-> 16,
      offset_bits1 |-> 180, length1 |-> 16, offset_bits2 |-> 0, length2 |-> 0],
     [name |-> "SubFrame3::omega", kind |-> "convert_s_2", bits |-> 32,
      offset_bits1 |-> 196, length1 |-> 8, offset_bits2 |-> 210, length2 |-> 24],
     [name |-> "SubFrame3::dot_Omega0", kind |-> "convert_s", bits |-> 32,
      offset_bits1 |-> 240, length1 |-> 24, offset_bits2 |-> 0, length2 |-> 0],
     [name |-> "SubFrame3::iode", kind |-> "convert_u", bits |-> 8,
      offset_bits1 |-> 270, length1 |-> 8, offset_bits2 |-> 0, length2 |-> 0],
     [name |-> "SubFrame3::dot_i0", kind |-> "convert_s", bits |-> 16,
      offset_bits1 |-> 278, length1 |-> 14, offset_bits2 |-> 0, length2 |-> 0],
     [name |-> "sv_page_id", kind |-> "convert_u", bits |-> 8,
      offset_bits1 |-> 62, length1 |-> 6, offset_bits2 |-> 0, length2 |-> 0],
     [name |-> "SubFrame4_5_Alnamac::e", kind |-> "convert_u", bits |-> 16,
      offset_bits1 |-> 68, length1 |-> 16, offset_bits2 |-> 0, length2 |-> 0],
     [name |-> "SubFrame4_5_Alnamac::t_oa", kind |-> "convert_u", bits |-> 8,
      offset_bits1 |-> 90, length1 |-> 8, offset_bits2 |-> 0, length2 |-> 0],
     [name |-> "SubFrame4_5_Alnamac::delta_i", kind |-> "convert_s", bits |-> 16,
      offset_bits1 |-> 98, length1 |-> 16, offset_bits2 |-> 0, length2 |-> 0],
     [name |-> "SubFrame4_5_Alnamac::dot_Omega0", kind |-> "convert_s", bits |-> 16,
      offset_bits1 |-> 120, length1 |-> 16, offset_bits2 |-> 0, length2 |-> 0],
     [name |-> "SubFrame4_5_Alnamac::SV_health", kind |-> "convert_u", bits |-> 8,
      offset_bits1 |-> 128, length1 |-> 8, offset_bits2 |-> 0, length2 |-> 0],
     [name |-> "SubFrame4_5_Alnamac::sqrt_A", kind |-> "convert_u", bits |-> 32,
      offset_bits1 |-> 150, length1 |-> 24, offset_bits2 |-> 0, length2 |-> 0],
     [name |-> "SubFrame4_5_Alnamac::Omega0", kind |-> "convert_s", bits |-> 32,
      offset_bits1 |-> 180, length1 |-> 24, offset_bits2 |-> 0, length2 |-> 0],
     [name |-> "SubFrame4_5_Alnamac::omega", kind |-> "convert_s", bits |-> 32,
      offset_bits1 |-> 210, length1 |-> 24, offset_bits2 |-> 0, length2 |-> 0],
     [name |-> "SubFrame4_5_Alnamac::M0", kind |-> "convert_s", bits |-> 32,
      offset_bits1 |-> 240, length1 |-> 24, offset_bits2 |-> 0, length2 |-> 0],
     [name |-> "SubFrame4_5_Alnamac::a_f0", kind |-> "convert_s_2", bits |-> 16,
      offset_bits1 |-> 270, length1 |-> 8, offset_bits2 |-> 289, length2 |-> 3],
     [name |-> "SubFrame4_5_Alnamac::a_f1", kind |-> "convert_s", bits |-> 16,
      offset_bits1 |-> 278, length1 |-> 11, offset_bits2 |-> 0, length2 |-> 0],
     [name |-> "SubFrame4_Page18::alpha0", kind |-> "convert_s", bits |-> 8,
      offset_bits1 |-> 68, length1 |-> 8, offset_bits2 |-> 0, length2 |-> 0],
     [name |-> "SubFrame4_Page18::alpha1", kind |-> "convert_s", bits |-> 8,
      offset_bits1 |-> 76, length1 |-> 8, offset_bits2 |-> 0, length2 |-> 0],
     [name |-> "SubFrame4_Page18::alpha2", kind |-> "convert_s", bits |-> 8,
      offset_bits1 |-> 90, length1 |-> 8, offset_bits2 |-> 0, length2 |-> 0],
     [name |-> "SubFrame4_Page18::alpha3", kind |-> "convert_s", bits |-> 8,
      offset_bits1 |-> 98, length1 |-> 8, offset_bits2 |-> 0, length2 |-> 0],
     [name |-> "SubFrame4_Page18::beta0", kind |-> "convert_s", bits |-> 8,
      offset_bits1 |-> 106, length1 |-> 8, offset_bits2 |-> 0, length2 |-> 0],
     [name |-> "SubFrame4_Page18::beta1", kind |-> "convert_s", bits |-> 8,
      offset_bits1 |-> 120, length1 |-> 8, offset_bits2 |-> 0, length2 |-> 0],
     [name |-> "SubFrame4_Page18::beta2", kind |-> "convert_s", bits |-> 8,
      offset_bits1 |-> 128, length1 |-> 8, offset_bits2 |-> 0, length2 |-> 0],
     [name |-> "SubFrame4_Page18::beta3", kind |-> "convert_s", bits |-> 8,
      offset_bits1 |-> 136, length1 |-> 8, offset_bits2 |-> 0, length2 |-> 0],
     [name |-> "SubFrame4_Page18::A1", kind |-> "convert_s", bits |-> 32,
      offset_bits1 |-> 150, length1 |-> 24, offset_bits2 |-> 0, length2 |-> 0],
     [name |-> "SubFrame4_Page18::A0", kind |-> "convert_s_2", bits |-> 32,
      offset_bits1 |-> 180, length1 |-> 24, offset_bits2 |-> 210, length2 |-> 8],
     [name |-> "SubFrame4_Page18::t_ot", kind |-> "convert_u", bits |-> 8,
      offset_bits1 |-> 218, length1 |-> 8, offset_bits2 |-> 0, length2 |-> 0],
     [name |-> "SubFrame4_Page18::delta_t_LS", kind |-> "convert_s", bits |-> 8,
      offset_bits1 |-> 240, length1 |-> 8, offset_bits2 |-> 0, length2 |-> 0],
     [name |-> "SubFrame4_Page18::WN_t", kind |-> "convert_u", bits |-> 8,
      offset_bits1 |-> 226, length1 |-> 8, offset_bits2 |-> 0, length2 |-> 0],
     [name |-> "SubFrame4_Page18::WN_LSF", kind |-> "convert_u", bits |-> 8,
      offset_bits1 |-> 248, length1 |-> 8, offset_bits2 |-> 0, length2 |-> 0],
     [name |-> "SubFrame4_Page18::DN", kind |-> "convert_u", bits |-> 8,
      offset_bits1 |-> 256, length1 |-> 8, offset_bits2 |-> 0, length2 |-> 0],
     [name |-> "SubFrame4_Page18::delta_t_LSF", kind |-> "convert_s", bits |-> 8,
      offset_bits1 |-> 270, length1 |-> 8, offset_bits2 |-> 0, length2 |-> 0]
  >>

\* BroadcastedMessage<InputT, EffectiveBits, PaddingBits_MSB>::name(buf), by
\* the macro that defines the extractor.
extract(f, buf, L, und) ==
  LET convert_u ==
        bits2num_length(buf, f.offset_bits1, f.length1, f.bits, L, und)
      convert_s ==
        Sar(bits2num(buf, f.offset_bits1, f.bits, L, und),
            f.bits - f.length1, und)
      convert_u_2 ==
        Conv(BitOr(Shl(Promote(bits2num_length(buf, f.offset_bits1, f.length1,
                                               f.bits, L, und)),
                       f.length2, und),
                   Promote(bits2num_length(buf, f.offset_bits2, f.length2,
                                           f.bits, L, und))), f.bits)
      convert_s_2 ==
        Sar(Conv(BitOr(Shl(Promote(bits2num_length(buf, f.offset_bits1,
                                                   f.length1, f.bits, L, und)),
                           f.bits - f.length1, und),
                       Shl(Promote(bits2num_length(buf, f.offset_bits2,
                                                   f.length2, f.bits, L, und)),
                           f.bits - f.length1 - f.length2, und)), f.bits),
            f.bits - f.length1 - f.length2, und)
  IN CASE f.kind = "convert_u" -> convert_u
       [] f.kind = "convert_s" -> convert_s
       [] f.kind = "convert_u_2" -> convert_u_2
       [] f.kind = "convert_s_2" -> convert_s_2

\* The navigation message of the test and the containers it is put into.
MessageBits == 300
Layouts ==
  LET Layout(input_bits, PaddingMSB, PaddingLSB, reserved) ==
        [input_bits |-> input_bits, PaddingMSB |-> PaddingMSB,
         PaddingLSB |-> PaddingLSB,
         EffectiveBits |-> input_bits - PaddingMSB - PaddingLSB,
         N_buf |-> (MessageBits + input_bits - reserved - 1)
                     \div (input_bits - reserved)]
  IN <<Layout(8, 0, 0, 0), Layout(8, 2, 0, 2), Layout(8, 0, 2, 2),
       Layout(8, 2, 2, 4),
       Layout(32, 0, 0, 0), Layout(32, 2, 0, 2), Layout(32, 0, 2, 2),
       Layout(32, 2, 2, 4),
       Layout(32, 8, -6, 2)>>

fill_buffer(b, L, und) ==
  LET effectiveBits == L.EffectiveBits
      N == (Len(b) + effectiveBits - 1) \div effectiveBits
      lash_shift == IF Len(b) % effectiveBits = 0 THEN L.PaddingLSB
                    ELSE effectiveBits - (Len(b) % effectiveBits) + L.PaddingLSB
      \* One word: the bits are shifted in from the right of a word that was
      \* never initialised, then the word is moved by shift.
      fill_word(bits, shift) ==
        LET shifted_in ==
              Conv(Fill(L.input_bits, und.word) \o bits, L.input_bits)
        IN IF shift >= 0
           THEN Conv(Shl(Promote(shifted_in), shift, und), L.input_bits)
           ELSE Conv(Shr(Promote(shifted_in), -shift, und), L.input_bits)
  IN [i \in 1 .. L.N_buf |->
        IF i < N
        THEN fill_word(SubSeq(b, (i - 1) * effectiveBits + 1, i * effectiveBits),
                       L.PaddingLSB)
        ELSE IF i = N
        THEN fill_word(SubSeq(b, (N - 1) * effectiveBits + 1, Len(b)),
                       lash_shift)
        ELSE Fill(L.input_bits, und.word)]

\* data_parse: a new message is drawn and put into the first container.
Parse_message(b, und) ==
  /\ \/ calc.op = "init"
     \/ /\ calc.op \in {"fill_buffer", "check_parse"}
        /\ calc.field = Len(Fields)
        /\ calc.layout = Len(Layouts)
  /\ calc' = [op |-> "fill_buffer", b |-> b, layout |-> 1, und |-> und,
              buf |-> fill_buffer(b, Layouts[1], und), field |-> 0]
  /\ UNCHANGED <<rt_vars, bp_vars, hist_vars, loader>>

\* data_parse: the message is put into the next container.
Parse_fill(und) ==
  /\ calc.op \in {"fill_buffer", "check_parse"}
  /\ calc.field = Len(Fields)
  /\ calc.layout < Len(Layouts)
  /\ calc' = [op |-> "fill_buffer", b |-> calc.b, layout |-> calc.layout + 1,
              und |-> und,
              buf |-> fill_buffer(calc.b, Layouts[calc.layout + 1], und),
              field |-> 0]
  /\ UNCHANGED <<rt_vars, bp_vars, hist_vars, loader>>

\* check_parse: the next extractor is called on the container.
Parse_check ==
  /\ calc.op \in {"fill_buffer", "check_parse"}
  /\ calc.field < Len(Fields)
  /\ calc' = [op |-> "check_parse", b |-> calc.b, layout |-> calc.layout,
              und |-> calc.und, buf |-> calc.buf, field |-> calc.field + 1,
              res |-> extract(Fields[calc.field + 1], calc.buf,
                              Layouts[calc.layout], calc.und)]
  /\ UNCHANGED <<rt_vars, bp_vars, hist_vars, loader>>

\* The messages are patterns the generator of the test can draw.
Parse_Next ==
  LET UndefinedSet == [word : {0, 1}, shift : {0, 1}]
  IN
  \/ \E b \in {Fill(MessageBits, 0), Fill(MessageBits, 1),
               [i \in 1 .. MessageBits |-> i % 2],
               [i \in 1 .. MessageBits |-> (i + 1) % 2],
               [i \in 1 .. MessageBits |->
                  IF (i * i + (i \div 3)) % 7 < 3 THEN 1 ELSE 0],
               [i \in 1 .. MessageBits |->
                  IF (i * i + (i \div 3)) % 7 < 3 THEN 0 ELSE 1]},
        und \in UndefinedSet : Parse_message(b, und)
  \/ \E und \in UndefinedSet : Parse_fill(und)
  \/ Parse_check

(***************************************************************************)
(* GPS_Time: calendar conversion and arithmetic.  seconds are integers in  *)
(* s.  The product seconds_week * quot of canonicalize is an unsigned int: *)
(* for a negative quot it is 2^32 larger than the integer product, and the *)
(* field borrow counts the 2^32 that canonicalize has taken from seconds,  *)
(* so the double the code holds is seconds - borrow * 2^32.                *)
(***************************************************************************)
seconds_day == 86400
days_of_month == <<31, 28, 31, 30, 31, 30, 31, 31, 30, 31, 30, 31>>
\* std::div and the division of int: the quotient is truncated towards zero.
div_quot(a, b) == IF a >= 0 THEN a \div b ELSE -((-a) \div b)
div_rem(a, b) == a - b * div_quot(a, b)

is_leap_year(year) ==
  (div_rem(year, 400) = 0)
    \/ ((div_rem(year, 4) = 0) /\ (div_rem(year, 100) # 0))

leap_year_prop(this_year, skip_init_leap_year_check) ==
  LET init == [extra_days |-> 0,
               is_leap_year |-> skip_init_leap_year_check
                                  \/ (div_rem(this_year, 4) = 0)]
      y_400_quot == div_quot(this_year, 400) - 5
      y_400_rem == div_rem(this_year, 400)
      y_100_quot == div_quot(y_400_rem, 100)
      y_100_rem == div_rem(y_400_rem, 100)
  IN IF y_400_quot < 0 THEN init
     ELSE IF y_400_rem = 0
     THEN [init EXCEPT !.extra_days = y_400_quot * 3]
     ELSE IF y_100_rem = 0
     THEN [extra_days |-> y_400_quot * 3 + y_100_quot - 1,
           is_leap_year |-> FALSE]
     ELSE [init EXCEPT !.extra_days = y_400_quot * 3 + y_100_quot]

GPS_Time(week, seconds) == [week |-> week, seconds |-> seconds, borrow |-> 0]

canonicalize(t) ==
  LET quot == t.seconds \div seconds_week   \* std::floor
  IN [week |-> t.week + quot,
      seconds |-> t.seconds - seconds_week * quot,
      borrow |-> t.borrow + (IF quot < 0 THEN 1 ELSE 0)]

\* GPS_Time(const struct tm &t, leap_seconds)
GPS_Time_tm(t, leap_seconds) ==
  LET \* The days of the months before tm_mon.
      RECURSIVE days_before(_, _)
      days_before(tm_mon, leap_year) ==
        IF tm_mon = 0 THEN 0
        ELSE days_before(tm_mon - 1, leap_year) + days_of_month[tm_mon]
               + (IF tm_mon - 1 = 1 /\ leap_year THEN 1 ELSE 0)
      y == t.tm_year + 1900
      prop == leap_year_prop(y, FALSE)
      y80 == y - 1980
      days == -6 - prop.extra_days + y80 * 365 + div_quot(y80 + 3, 4)
                + days_before(t.tm_mon, prop.is_leap_year) + t.tm_mday
  IN canonicalize(GPS_Time(div_quot(days, 7),
       leap_seconds + div_rem(days, 7) * seconds_day
         + t.tm_hour * 60 * 60 + t.tm_min * 60 + t.tm_sec))

GPS_Time_plus(t, sec) ==
  canonicalize([t EXCEPT !.seconds = t.seconds + sec])

c_tm(t, leap_seconds) ==
  LET \* The loop over the four years of a leap cycle.
      RECURSIVE c_tm_years(_, _, _, _)
      c_tm_years(i, tm_mday, y, leap_year) ==
        LET doy == IF i = 0 /\ leap_year THEN 366 ELSE 365
        IN IF i >= 4 \/ tm_mday <= doy THEN [tm_mday |-> tm_mday, y |-> y]
           ELSE c_tm_years(i + 1, tm_mday - doy, y + 1, leap_year)
      \* The loop over the months of the year.
      RECURSIVE c_tm_months(_, _, _)
      c_tm_months(tm_mon, tm_mday, leap_year) ==
        IF tm_mday > days_of_month[tm_mon + 1]
        THEN IF (tm_mon = 1) /\ leap_year
             THEN IF tm_mday = 29
                  THEN [tm_mon |-> tm_mon, tm_mday |-> tm_mday]
                  ELSE c_tm_months(tm_mon + 1,
                                   tm_mday - 1 - days_of_month[tm_mon + 1],
                                   leap_year)
             ELSE c_tm_months(tm_mon + 1, tm_mday - days_of_month[tm_mon + 1],
                              leap_year)
        ELSE [tm_mon |-> tm_mon, tm_mday |-> tm_mday]
      mod_t == GPS_Time_plus(t, leap_seconds)
      min_sec_quot == div_quot(mod_t.seconds, 60)
      hr_min_quot == div_quot(min_sec_quot, 60)
      day_hr_quot == div_quot(hr_min_quot, 24)
      days == day_hr_quot + 6 + (mod_t.week * 7)
      days_4year_quot == div_quot(days, 366 + 365 * 3)
      y4 == days_4year_quot * 4 + 1980
      prop == leap_year_prop(y4, TRUE)
      years == c_tm_years(0, div_rem(days, 366 + 365 * 3) + prop.extra_days,
                          y4, prop.is_leap_year)
      months == c_tm_months(0, years.tm_mday, is_leap_year(years.y))
  IN [tm_sec |-> div_rem(mod_t.seconds, 60),
      tm_min |-> div_rem(min_sec_quot, 60),
      tm_hour |-> div_rem(hr_min_quot, 24),
      tm_wday |-> day_hr_quot,
      tm_yday |-> years.tm_mday,
      tm_year |-> years.y - 1900,
      tm_mon |-> months.tm_mon,
      tm_mday |-> months.tm_mday,
      tm_isdst |-> 0]

\* A calendar time is converted to GPS time and back.
Cal_round_trip(t) ==
  /\ \E g \in {GPS_Time_tm(t, 0)} :
       calc' = [op |-> "c_tm", tm |-> t, gps |-> g, c_tm |-> c_tm(g, 0)]
  /\ UNCHANGED <<rt_vars, bp_vars, hist_vars, loader>>

\* Calendar date-times from 1980-01-06 00:00:00 on: the first, the sixth, the
\* 28th and the last day of every month of some years, at the first and at
\* the last second of the day.
Cal_Next ==
  LET ValidTmSet ==
        LET YearSet == {1980, 1983, 1984, 2000, 2099, 2100, 2101, 2400}
            last_day(year, tm_mon) ==
              days_of_month[tm_mon + 1]
                + (IF tm_mon = 1 /\ is_leap_year(year) THEN 1 ELSE 0)
            TimeOfDaySet ==
              {[tm_hour |-> 0, tm_min |-> 0, tm_sec |-> 0],
               [tm_hour |-> 23, tm_min |-> 59, tm_sec |-> 59]}
            TmSet ==
              {[tm_year |-> x[1] - 1900, tm_mon |-> x[2], tm_mday |-> d,
                tm_hour |-> x[3].tm_hour, tm_min |-> x[3].tm_min,
                tm_sec |-> x[3].tm_sec] :
                 x \in {z \in YearSet \X (0 .. 11) \X TimeOfDaySet : TRUE},
                 d \in 1 .. 31}
            ValidTm(t) ==
              /\ t.tm_mday \in {1, 6, 28, last_day(t.tm_year + 1900, t.tm_mon)}
              /\ (t.tm_year + 1900 > 1980 \/ t.tm_mon > 0 \/ t.tm_mday >= 6)
        IN {t \in TmSet : ValidTm(t)}
  IN \E t \in ValidTmSet : Cal_round_trip(t)

\* t + s, t - s and (t + s) - t.
Time_offset(t, s) ==
  LET \* operator-(const float_t &sec)
      GPS_Time_minus(u, sec) == GPS_Time_plus(u, -sec)
      \* operator-(const GPS_Time &t): the interval in seconds, a double
      \* held as seconds - borrow * 2^32.
      GPS_Time_interval(a, b) ==
        [seconds |-> (a.seconds - b.seconds)
                       + (a.week - b.week) * seconds_week,
         borrow |-> a.borrow - b.borrow]
  IN
  /\ \E plus \in {GPS_Time_plus(t, s)} :
       calc' = [op |-> "offset", t |-> t, s |-> s, plus |-> plus,
                minus |-> GPS_Time_minus(t, s),
                interval |-> GPS_Time_interval(plus, t)]
  /\ UNCHANGED <<rt_vars, bp_vars, hist_vars, loader>>

\* Times with canonical seconds, and offsets of less and of more than a week.
Time_Next ==
  \E week \in {1, 10, 2000},
     seconds \in {0, 100, 86400, 302400, 604799},
     s \in {0, 1, 200, 604800, 604801, 1300000,
            -1, -200, -604800, -1300000} :
    Time_offset(GPS_Time(week, seconds), s)

(***************************************************************************)
(* Ephemeris::raw_t: conversion between broadcast integers and scaled      *)
(* values.  An integer of up to 33 bits is held as [hi, lo], the value     *)
(* hi * 2^16 + lo with 0 <= lo < 2^16; a scaled value is a multiple of     *)
(* half the scale factor sf of its field, [int, half] for                  *)
(* (int + half / 2) * sf.                                                  *)
(***************************************************************************)
Half == 2 ^ 16
Wide(n) == [hi |-> n \div Half, lo |-> n % Half]
WideInc(w) ==
  IF w.lo + 1 = Half THEN [hi |-> w.hi + 1, lo |-> 0]
  ELSE [hi |-> w.hi, lo |-> w.lo + 1]
\* Conversion of an s32_t to the type of a field of raw_t.
ConvField(w, signed, bits) ==
  LET low == IF bits >= 16 THEN w.lo ELSE w.lo % (2 ^ bits)
  IN IF bits = 32
     THEN IF signed THEN w
          ELSE IF w.hi < 0 THEN [hi |-> w.hi + Half, lo |-> w.lo] ELSE w
     ELSE IF signed /\ low >= 2 ^ (bits - 1) THEN Wide(low - 2 ^ bits)
          ELSE Wide(low)

\* What (s32_t)x gives for a double x outside the range of s32_t.
INT_MIN == [hi |-> -32768, lo |-> 0]
INT_MAX == [hi |-> 32767, lo |-> 65535]
\* (s32_t)x, x = (int + half / 2): the fraction is dropped towards zero.
cast_s32(x, outcome) ==
  LET truncated == IF x.int.hi < 0 /\ x.half = 1 THEN WideInc(x.int) ELSE x.int
  IN IF truncated.hi >= -32768 /\ truncated.hi <= 32767 THEN truncated
     ELSE CASE outcome = "indefinite" -> INT_MIN
            [] outcome = "saturate" ->
                 IF truncated.hi < 0 THEN INT_MIN ELSE INT_MAX
            [] outcome = "modulo" ->
                 [hi |-> ((truncated.hi + 32768) % Half) - 32768,
                  lo |-> truncated.lo]

\* The scaled fields of raw_t and their types.
ScaledFields ==
  <<[name |-> "t_GD", signed |-> TRUE, bits |-> 8],
    [name |-> "t_oc", signed |-> FALSE, bits |-> 16],
    [name |-> "a_f0", signed |-> TRUE, bits |-> 32],
    [name |-> "a_f1", signed |-> TRUE, bits |-> 16],
    [name |-> "a_f2", signed |-> TRUE, bits |-> 8],
    [name |-> "c_rs", signed |-> TRUE, bits |-> 16],
    [name |-> "delta_n", signed |-> TRUE, bits |-> 16],
    [name |-> "M0", signed |-> TRUE, bits |-> 32],
    [name |-> "c_uc", signed |-> TRUE, bits |-> 16],
    [name |-> "e", signed |-> FALSE, bits |-> 32],
    [name |-> "c_us", signed |-> TRUE, bits |-> 16],
    [name |-> "sqrt_A", signed |-> FALSE, bits |-> 32],
    [name |-> "t_oe", signed |-> FALSE, bits |-> 16],
    [name |-> "c_ic", signed |-> TRUE, bits |-> 16],
    [name |-> "Omega0", signed |-> TRUE, bits |-> 32],
    [name |-> "c_is", signed |-> TRUE, bits |-> 16],
    [name |-> "i0", signed |-> TRUE, bits |-> 32],
    [name |-> "c_rc", signed |-> TRUE, bits |-> 16],
    [name |-> "omega", signed |-> TRUE, bits |-> 32],
    [name |-> "dot_Omega0", signed |-> TRUE, bits |-> 32],
    [name |-> "dot_i0", signed |-> TRUE, bits |-> 16]>>

\* CONVERT of operator Ephemeris(): converted.TARGET = sf * TARGET.
raw_to_scaled(raw) == [int |-> raw, half |-> 0]
\* CONVERT of operator=(const Ephemeris &):
\* TARGET = (s32_t)((eph.TARGET + 0.5 * sf) / sf).
scaled_to_raw(f, x, outcome) ==
  ConvField(cast_s32([int |-> x.int, half |-> x.half + 1], outcome),
            f.signed, f.bits)

\* A field of a raw_t is converted to the Ephemeris and back.
Raw_round_trip(i, raw, outcome) ==
  /\ \E x \in {raw_to_scaled(raw)} :
       calc' = [op |-> "raw_t", field |-> ScaledFields[i].name, raw |-> raw,
                scaled |-> x, outcome |-> outcome,
                back |-> scaled_to_raw(ScaledFields[i], x, outcome)]
  /\ UNCHANGED <<rt_vars, bp_vars, hist_vars, loader>>

\* Broadcast integers of a field: the ends of its range, the values around
\* zero and around 2^31, and sqrt_A of a GPS orbit.
Raw_Next ==
  LET RawValues(f) ==
        IF f.bits = 32
        THEN IF f.signed
             THEN {INT_MIN, WideInc(INT_MIN), Wide(-2), Wide(-1), Wide(0),
                   Wide(1), INT_MAX}
             ELSE {Wide(0), Wide(1), INT_MAX, [hi |-> 32768, lo |-> 0],
                   [hi |-> 32768, lo |-> 1], [hi |-> 32768, lo |-> 5],
                   [hi |-> 41230, lo |-> 10176], [hi |-> 65535, lo |-> 65535]}
        ELSE IF f.signed
             THEN {Wide(-(2 ^ (f.bits - 1))), Wide(-2), Wide(-1), Wide(0),
                   Wide(1), Wide(2 ^ (f.bits - 1) - 1)}
             ELSE {Wide(0), Wide(1), Wide(2 ^ f.bits - 1)}
  IN \E i \in 1 .. Len(ScaledFields),
        outcome \in {"indefinite", "saturate", "modulo"} :
       \E raw \in RawValues(ScaledFields[i]) : Raw_round_trip(i, raw, outcome)

(***************************************************************************)
(* Dimensions of the filter of INS_ClockErrorEstimated<BaseINS, Clocks>    *)
(* and the rows and columns its functions index                            *)
(***************************************************************************)
MaxClocks == 4
DefaultClocks == 1
STATE_VALUES_CLOCK_ERROR(Clocks) == 2 * Clocks
\* The static constants are initialised in the class with _MSC_VER and
\* outside of it without.
Q_SIZE_CLOCK_ERROR(Clocks, build) ==
  IF build = "_MSC_VER" THEN STATE_VALUES_CLOCK_ERROR(Clocks)
  ELSE STATE_VALUES_CLOCK_ERROR(DefaultClocks)
Filtered_INS2_Property(base, Clocks, build) ==
  LET P_SIZE_CLOCK_ERROR ==
        IF build = "_MSC_VER" THEN STATE_VALUES_CLOCK_ERROR(Clocks)
        ELSE STATE_VALUES_CLOCK_ERROR(DefaultClocks)
  IN
  [Clocks |-> Clocks, build |-> build,
   P_SIZE_WITHOUT_CLOCK_ERROR |-> base.P_SIZE,
   Q_SIZE_WITHOUT_CLOCK_ERROR |-> base.Q_SIZE,
   P_SIZE |-> base.P_SIZE + P_SIZE_CLOCK_ERROR,
   Q_SIZE |-> base.Q_SIZE + Q_SIZE_CLOCK_ERROR(Clocks, build)]

\* getAB: the rows and columns of A (P_SIZE x P_SIZE) and the rows of B
\* indexed along P, the columns of B (P_SIZE x Q_SIZE) along Q.
getAB_index(prop) ==
  [P |-> UNION {{prop.P_SIZE_WITHOUT_CLOCK_ERROR + 2 * j,
                 prop.P_SIZE_WITHOUT_CLOCK_ERROR + 2 * j + 1} :
                  j \in 0 .. prop.Clocks - 1}
           \cup {prop.P_SIZE_WITHOUT_CLOCK_ERROR + k :
                   k \in 0 .. Q_SIZE_CLOCK_ERROR(prop.Clocks, prop.build) - 1},
   Q |-> {prop.Q_SIZE_WITHOUT_CLOCK_ERROR + k :
            k \in 0 .. Q_SIZE_CLOCK_ERROR(prop.Clocks, prop.build) - 1}]
\* correct_INS: the rows of x_hat (P_SIZE x 1).
correct_INS_index(prop) ==
  [P |-> {prop.P_SIZE_WITHOUT_CLOCK_ERROR + k :
            k \in 0 .. STATE_VALUES_CLOCK_ERROR(prop.Clocks) - 1},
   Q |-> {}]
\* correct_info -> assign_z_H_R: the columns of H written for the clock.
correct_info_index(prop, clock_index) ==
  [P |-> IF clock_index >= prop.Clocks THEN {}
         ELSE {prop.P_SIZE_WITHOUT_CLOCK_ERROR + (clock_index * 2),
               prop.P_SIZE_WITHOUT_CLOCK_ERROR + (clock_index * 2) + 1},
   Q |-> {}]
\* range_residual_mean_ms: the column of info.H read for the clock.
range_residual_mean_ms_index(prop, clock_index) ==
  [P |-> {prop.P_SIZE_WITHOUT_CLOCK_ERROR + (clock_index * 2)}, Q |-> {}]

\* The record of a call: the dimensions and what the call has indexed.
Dim_getAB(prop) ==
  /\ calc' = [op |-> "getAB", prop |-> prop, clock_index |-> 0,
              index |-> getAB_index(prop)]
  /\ UNCHANGED <<rt_vars, bp_vars, hist_vars, loader>>
Dim_correct_INS(prop) ==
  /\ calc' = [op |-> "correct_INS", prop |-> prop, clock_index |-> 0,
              index |-> correct_INS_index(prop)]
  /\ UNCHANGED <<rt_vars, bp_vars, hist_vars, loader>>
Dim_correct_info(prop, clock_index) ==
  /\ calc' = [op |-> "correct_info", prop |-> prop,
              clock_index |-> clock_index,
              index |-> correct_info_index(prop, clock_index)]
  /\ UNCHANGED <<rt_vars, bp_vars, hist_vars, loader>>
Dim_range_residual_mean_ms(prop, clock_index) ==
  /\ calc' = [op |-> "range_residual_mean_ms", prop |-> prop,
              clock_index |-> clock_index,
              index |-> range_residual_mean_ms_index(prop, clock_index)]
  /\ UNCHANGED <<rt_vars, bp_vars, hist_vars, loader>>

\* P_SIZE and Q_SIZE of the filter of BaseINS, the number of clocks and the
\* build.
Dim_Next ==
  \E base \in {[P_SIZE |-> 10, Q_SIZE |-> 7], [P_SIZE |-> 12, Q_SIZE |-> 9]},
     Clocks \in 1 .. MaxClocks, build \in {"_MSC_VER", "other"} :
    \E prop \in {Filtered_INS2_Property(base, Clocks, build)} :
      \/ Dim_getAB(prop)
      \/ Dim_correct_INS(prop)
      \/ \E clock_index \in 0 .. Clocks - 1 : Dim_correct_info(prop, clock_index)
      \/ \E clock_index \in 0 .. Clocks - 1 :
           Dim_range_residual_mean_ms(prop, clock_index)

(***************************************************************************)
(* GNSS_Data::Loader: the subframes of one satellite.  A subframe is given *)
(* by the fields the parser takes from it.                                 *)
(***************************************************************************)
MaxLoaded == 2
\* Loader(): no space node; received and seen record what has arrived since
\* the last registration and are not read by load.
NewLoader ==
  LET \* gps_ephemeris_raw_t(): nothing received.
      gps_ephemeris_raw_t ==
        [set_iodc |-> FALSE, iode_subframe2 |-> -1, iode_subframe3 |-> -1,
         WN |-> 0, iodc |-> 0, iode |-> 0,
         subframe1 |-> 0, subframe2 |-> 0, subframe3 |-> 0]
  IN [gps |-> FALSE, gps_ephemeris |-> gps_ephemeris_raw_t,
      registered |-> <<>>, iono_utc |-> FALSE,
      received |-> [n \in 1 .. 3 |-> -1],
      last |-> [op |-> "init", seq |-> 0]]

\* Subframes of the data issues 5, 6 and 261 (IODC 261 has the low 8 bits of
\* IODE 5), other subframes and pages, other systems.
SubframeSet ==
  [gnssID : {"GPS"}, subframe_no : {1}, issue : {5, 6, 261}, WN : {5},
   sv_page_id : {0}, week : {-1, 2053}]
  \cup [gnssID : {"GPS"}, subframe_no : {2, 3}, issue : {5, 6}, WN : {0},
        sv_page_id : {0}, week : {2053}]
  \cup [gnssID : {"GPS"}, subframe_no : {0, 4, 5}, issue : {0}, WN : {0},
        sv_page_id : {56}, week : {2053}]
  \cup [gnssID : {"other"}, subframe_no : {1}, issue : {5}, WN : {5},
        sv_page_id : {0}, week : {2053}]

\* update_subframe1, 2, 3: the fields of the subframe are stored.
update_subframe(eph, data) ==
  CASE data.subframe_no = 1 ->
         [eph EXCEPT !.WN = data.WN, !.iodc = data.issue,
                     !.subframe1 = data.issue, !.set_iodc = TRUE]
    [] data.subframe_no = 2 ->
         [eph EXCEPT !.iode = data.issue, !.subframe2 = data.issue,
                     !.iode_subframe2 = data.issue]
    [] data.subframe_no = 3 ->
         [eph EXCEPT !.iode = data.issue, !.subframe3 = data.issue,
                     !.iode_subframe3 = data.issue]
    [] OTHER -> eph

\* The test of load: all three subframes are there and of one issue.
load_complete_no_iodc(eph) ==
  /\ (eph.iode_subframe2 >= 0) /\ (eph.iode_subframe3 >= 0)
  /\ (eph.iode_subframe2 = eph.iode_subframe3)
  /\ ((eph.iodc % 256) = eph.iode)

load_complete(eph) ==
  /\ eph.set_iodc /\ (eph.iode_subframe2 >= 0) /\ (eph.iode_subframe3 >= 0)
  /\ (eph.iode_subframe2 = eph.iode_subframe3)
  /\ ((eph.iodc % 256) = eph.iode)

\* (gps_ephemeris_t)eph with the week number completed.
loaded_ephemeris(eph, week_number) ==
  [WN |-> (week_number - (week_number % 1024)) + (eph.WN % 1024),
   iodc |-> eph.iodc, iode |-> eph.iode,
   subframe1 |-> eph.subframe1, subframe2 |-> eph.subframe2,
   subframe3 |-> eph.subframe3]

\* Loader::load(const GNSS_Data &); now is the week of the current time.
Loader_load(data, now) ==
  LET week_number == IF data.week < 0 THEN now ELSE data.week
      eph == update_subframe(loader.gps_ephemeris, data)
      complete == data.subframe_no <= 3 /\ load_complete(eph)
      iono == data.subframe_no = 4 /\ data.sv_page_id = 56
      rec == IF data.subframe_no \in 1 .. 3
             THEN [loader.received EXCEPT ![data.subframe_no] = data.issue]
             ELSE loader.received
      log == [op |-> "load", seq |-> 1 - loader.last.seq, data |-> data,
              received |-> rec, week_number |-> week_number]
  IN /\ Len(loader.registered) < MaxLoaded
     /\ IF data.gnssID # "GPS"
        THEN loader' = [loader EXCEPT
               !.last = log @@ [ret |-> FALSE, complete |-> FALSE]]
        ELSE IF complete
        THEN LET converted == loaded_ephemeris(eph, week_number)
             IN loader' = [loader EXCEPT
                  !.gps_ephemeris =
                     [eph EXCEPT !.WN = converted.WN, !.set_iodc = FALSE,
                                 !.iode_subframe2 = -1, !.iode_subframe3 = -1],
                  !.registered = IF loader.gps THEN Append(@, converted) ELSE @,
                  !.received = [n \in 1 .. 3 |-> -1],
                  !.last = log @@ [ret |-> loader.gps, complete |-> TRUE]]
        ELSE loader' = [loader EXCEPT
               !.gps_ephemeris = IF data.subframe_no <= 3 THEN eph ELSE @,
               !.iono_utc = @ \/ (iono /\ loader.gps),
               !.received = rec,
               !.last = log @@ [ret |-> iono /\ loader.gps,
                                complete |-> FALSE]]
     /\ UNCHANGED <<rt_vars, bp_vars, hist_vars, calc>>

\* loader.gps = &space_node, or NULL.
Loader_attach(gps) ==
  /\ loader.gps # gps
  /\ loader' = [loader EXCEPT !.gps = gps,
                  !.last = [op |-> "attach", seq |-> 1 - loader.last.seq]]
  /\ UNCHANGED <<rt_vars, bp_vars, hist_vars, calc>>

\* now is gps_time_t::now().week.
Load_Next ==
  \/ \E data \in SubframeSet, now \in {2400} : Loader_load(data, now)
  \/ \E gps \in BOOLEAN : Loader_attach(gps)

\* A satellite that receives ephemerides of two weeks.
Roll_Next ==
  \/ \E eph \in RollEphSet, dp \in PriorityDeltaSet : Hist_add(eph, dp)
  \/ \E t \in RollTimeSet : Hist_select(t)

(***************************************************************************)
(* Specifications                                                          *)
(***************************************************************************)
\* The state after construction of both synchronizers and of a Satellite.
Init ==
  /\ rt_snapshots = <<>>
  /\ rt_filter = NewFilter
  /\ rt_last = RT_NoOp
  /\ bp_snapshots = <<>>
  /\ bp_filter = NewFilter
  /\ bp_depth = 0
  /\ bp_last = [op |-> "init", seq |-> 0]
  /\ history = NewHistory
  /\ selected_index = 0
  /\ another = NewHistory
  /\ merge_st = MergeIdle
  /\ hist_last = [op |-> "init", seq |-> 0]
  /\ calc = [op |-> "init"]
  /\ loader = NewLoader

SpecRT == Init /\ [][RT_Next]_vars

SpecRTC == Init /\ [][RTC_Next]_vars

SpecBP == Init /\ [][BP_Next]_vars

SpecHist == Init /\ [][Hist_Next]_vars

SpecTC == Init /\ [][TC_Next]_vars

SpecCyc == Init /\ [][Cyc_Next]_vars

SpecReg == Init /\ [][Reg_Next]_vars

SpecRoll == Init /\ [][Roll_Next]_vars

SpecMode == Init /\ [][Mode_Next]_vars

SpecParse == Init /\ [][Parse_Next]_vars

SpecCal == Init /\ [][Cal_Next]_vars

SpecTime == Init /\ [][Time_Next]_vars

SpecRaw == Init /\ [][Raw_Next]_vars

SpecDim == Init /\ [][Dim_Next]_vars

SpecLoad == Init /\ [][Load_Next]_vars


(***************************************************************************)
(* Real-Time synchronizer: properties                                      *)
(***************************************************************************)
SetupDone(last) == last.op = "setup_correct"
SetupTrue(last) == last.op = "setup_correct" /\ last.ret
JumpFixedBy(last) == last.op = "correct" /\ last.jump = "fixed"

\* C2: whenever setup_correct(advanceT) returns true, the sum of
\* elapsedT_from_last_update over the snapshots that remain differs from
\* -advanceT by at most 5 ms.
CE_C2 ==
  SetupTrue(rt_last) =>
    Abs(SumElapsed(rt_snapshots) - (-rt_last.advanceT)) <= MatchToleranceMs

\* C9: a successful setup_correct erases exactly the snapshots older than the
\* matched one: the matched snapshot becomes the front, the newer ones follow
\* in their order and the list is not empty.
CE_C9 ==
  [][SetupTrue(rt_last') =>
       /\ rt_snapshots' = SubSeq(rt_snapshots, rt_last'.matched, Len(rt_snapshots))
       /\ rt_snapshots' # <<>>]_vars

\* C10: for advanceT <= 0, when the list is empty or advanceT plus the sum
\* of all elapsedT is <= -5 ms, setup_correct returns false and leaves the
\* snapshot list exactly as it was.
Thm_C10 ==
  [][(/\ SetupDone(rt_last')
      /\ rt_last'.advanceT <= 0
      /\ \/ rt_snapshots = <<>>
         \/ rt_last'.advanceT + SumElapsed(rt_snapshots) <= -MatchToleranceMs)
     => (~rt_last'.ret /\ rt_snapshots' = rt_snapshots)]_vars

\* C10 witness: a measurement older than a history of two or more snapshots
\* was rejected.
Wit_C10 ==
  /\ SetupDone(rt_last) /\ ~rt_last.ret /\ rt_last.advanceT <= 0
  /\ Len(rt_snapshots) >= 2
  /\ rt_last.advanceT + SumElapsed(rt_snapshots) <= -MatchToleranceMs

\* C11: setup_correct(advanceT) with advanceT > 0 returns false and erases
\* no snapshot, whatever the snapshot list holds.
Thm_C11 ==
  [][(SetupDone(rt_last') /\ rt_last'.advanceT > 0)
     => (~rt_last'.ret /\ rt_snapshots' = rt_snapshots)]_vars

\* C11 witness: a measurement of the future was rejected with three
\* snapshots stored, the newest of which it would have matched.
Wit_C11 ==
  /\ SetupDone(rt_last) /\ rt_last.advanceT > 0 /\ ~rt_last.ret
  /\ Len(rt_snapshots) = 3
  /\ setup_scan(rt_snapshots, 3, rt_last.advanceT) = 3

\* C6: when a clock jump is detected and fixed in Real-Time mode, the shift
\* is added exactly once to clock_error[clock_index] of every stored snapshot
\* and of the live filter before the correction is applied, and no other
\* clock index is modified by it.
Thm_C6 ==
  [][JumpFixedBy(rt_last') =>
       LET ci == rt_last'.clock_index
           sh == rt_last'.shift
       IN /\ Len(rt_snapshots') = Len(rt_snapshots)
          /\ \A i \in 1 .. Len(rt_snapshots) :
               /\ rt_snapshots'[i].ins_gps.clock_error =
                    [rt_snapshots[i].ins_gps.clock_error EXCEPT ![ci] = @ + sh]
               /\ rt_snapshots'[i].elapsedT = rt_snapshots[i].elapsedT
          /\ rt_last'.shifted.clock_error =
               [rt_filter.clock_error EXCEPT ![ci] = @ + sh]
          /\ rt_last'.primitive]_vars

\* C6 witness: a jump was fixed with two snapshots stored whose clock errors
\* differ from each other.
Wit_C6 ==
  /\ JumpFixedBy(rt_last)
  /\ Len(rt_snapshots) >= 2
  /\ rt_snapshots[1].ins_gps.clock_error[rt_last.clock_index]
       # rt_snapshots[2].ins_gps.clock_error[rt_last.clock_index]

\* C8 as stated: after every successful clock jump shift the live clock
\* error of clock_index satisfies |c_i| < light_speed * 1 ms.
CE_C8 ==
  JumpFixedBy(rt_last) =>
    Abs(rt_last.shifted.clock_error[rt_last.clock_index]) < LightMs

\* C8 amended: after every successful clock jump shift the residual mean
\* regenerated with the shift has magnitude < 0.9 ms and c_i has changed by
\* a non-zero integer multiple of light_speed * 1 ms, the multiple nearest
\* to the residual mean detected before the shift.
Thm_C8 ==
  [][JumpFixedBy(rt_last') =>
       LET ci == rt_last'.clock_index
           sh == rt_last'.shift
           d == rt_last'.delta
           d2 == rt_last'.delta2
       IN /\ sh # 0 /\ sh % LightMs = 0
          /\ d.n > 0
          /\ 2 * Abs(d.sum - d.n * sh) <= d.n * LightMs
          /\ rt_last'.shifted.clock_error[ci] = rt_filter.clock_error[ci] + sh
          /\ d2.n > 0
          /\ 10 * Abs(d2.sum) < JumpThresholdTenthMs * d2.n * LightMs]_vars

\* C8 witness: a jump was fixed and left |c_i| >= light_speed * 1 ms.
Wit_C8 ==
  /\ JumpFixedBy(rt_last)
  /\ Abs(rt_last.shifted.clock_error[rt_last.clock_index]) >= LightMs

(***************************************************************************)
(* Back-Propagate synchronizer: properties                                 *)
(***************************************************************************)
ElapsedNonDecreasing(snaps) ==
  \A i \in 1 .. Len(snaps) - 1 : snaps[i].elapsedT <= snaps[i + 1].elapsedT

\* C1 as stated: after any sequence of time updates and corrections the
\* elapsedT_from_last_correct values are non-decreasing from front to back
\* and every value is >= 0.
CE_C1 ==
  /\ ElapsedNonDecreasing(bp_snapshots)
  /\ \A i \in 1 .. Len(bp_snapshots) : bp_snapshots[i].elapsedT >= 0

\* C1 amended: the newest snapshot's elapsedT_from_last_correct is >= 0, and
\* every snapshot whose value is positive (not yet back-propagated) is
\* preceded by a snapshot whose value is not larger; older snapshots may
\* hold negative values.
Thm_C1 ==
  /\ bp_snapshots # <<>> => bp_snapshots[Len(bp_snapshots)].elapsedT >= 0
  /\ \A i \in 1 .. Len(bp_snapshots) - 1 :
       bp_snapshots[i + 1].elapsedT > 0 =>
         bp_snapshots[i].elapsedT <= bp_snapshots[i + 1].elapsedT

\* C1 witness: after a correction and a further time update the list holds
\* a negative value in front of the positive one accumulated since.
Wit_C1 ==
  /\ bp_last.op = "update"
  /\ Len(bp_snapshots) >= 3
  /\ bp_snapshots[1].elapsedT < 0
  /\ bp_snapshots[Len(bp_snapshots)].elapsedT > 0

\* C7: after a successful clock jump fix during correct() in Back-Propagate
\* mode the snapshot that is back-propagated carries the same clock shift as
\* the live filter.
CE_C7 ==
  [][(/\ bp_last'.op = "correct" /\ bp_last'.jump = "fixed"
      /\ bp_snapshots # <<>> /\ bp_snapshots' # <<>>)
     => LET ci == bp_last'.clock_index
        IN /\ bp_last'.shifted.clock_error[ci] =
                bp_filter.clock_error[ci] + bp_last'.shift
           /\ bp_snapshots'[Len(bp_snapshots')].ins_gps.clock_error[ci] =
                bp_snapshots[Len(bp_snapshots)].ins_gps.clock_error[ci]
                  + bp_last'.shift - bp_last'.x_hat_s[ci]]_vars

CE_C20 ==
  [][(/\ bp_last'.op = "correct" /\ bp_last'.primitive
      /\ bp_last.op = "update"
      /\ \E i \in 1 .. Len(bp_snapshots) :
           bp_snapshots[i].elapsedT < bp_depth)
     => Len(bp_snapshots') < Len(bp_snapshots)]_vars

\* C21 as stated: a Back-Propagate correction that starts with a non-empty
\* snapshot list never leaves the list empty, for every back_propagate_depth.
CE_C21 ==
  [][(/\ bp_last'.op = "correct" /\ bp_last'.primitive
      /\ bp_snapshots # <<>>)
     => bp_snapshots' # <<>>]_vars

\* C21 amended: with back_propagate_depth <= 0 a correction that starts with
\* a non-empty snapshot list leaves it non-empty: the eviction stops short of
\* the newest snapshot, which is corrected and stays the newest one.
Thm_C21 ==
  [][(/\ bp_last'.op = "correct" /\ bp_last'.primitive
      /\ bp_depth <= 0
      /\ bp_snapshots # <<>>)
     => /\ bp_snapshots' # <<>>
        /\ bp_snapshots'[Len(bp_snapshots')].ins_gps =
             correct_primitive(bp_snapshots[Len(bp_snapshots)].ins_gps,
                               bp_last'.x_hat_s)]_vars

\* C21 witness: with depth 0 a correction has evicted snapshots and kept the
\* newest one.
Wit_C21 ==
  /\ bp_last.op = "correct" /\ bp_last.primitive
  /\ bp_depth = 0
  /\ bp_last.found > Len(bp_snapshots)
  /\ bp_snapshots # <<>>
  /\ bp_snapshots[Len(bp_snapshots)].elapsedT = 0

(***************************************************************************)
(* Clock jump that cannot be fixed: properties                             *)
(***************************************************************************)
\* A jump was detected (mean d) and the mean regenerated with the shift (d2)
\* still has magnitude >= 0.9 ms.
JumpNotFixed(last) ==
  /\ last.op = "correct"
  /\ JumpDetected(last.delta)
  /\ last.delta2.n > 0
  /\ 10 * Abs(last.delta2.sum) >= JumpThresholdTenthMs * last.delta2.n * LightMs

\* C12: when a clock jump is detected but the residual mean regenerated with
\* the shift still has magnitude >= 0.9 ms, the measurement is skipped in the
\* plain tightly coupled path and in the Real-Time path: no primitive
\* correction, clock_error of the live filter and of every snapshot unchanged.
Thm_C12 ==
  [][/\ JumpNotFixed(rt_last') =>
          /\ ~rt_last'.primitive
          /\ rt_filter' = rt_filter
          /\ rt_snapshots' = rt_snapshots
     /\ JumpNotFixed(bp_last') =>
          /\ ~bp_last'.primitive
          /\ bp_filter' = bp_filter
          /\ bp_snapshots' = bp_snapshots]_vars

\* C12 witness: both paths have skipped a measurement with snapshots stored,
\* the Real-Time one at a regenerated mean of exactly 0.9 ms.
Wit_C12 ==
  /\ JumpNotFixed(rt_last) /\ rt_last.jump = "skipped"
  /\ 10 * Abs(rt_last.delta2.sum) = JumpThresholdTenthMs * rt_last.delta2.n * LightMs
  /\ Len(rt_snapshots) >= 2
  /\ JumpNotFixed(bp_last) /\ bp_last.jump = "skipped"
  /\ bp_snapshots # <<>>

(***************************************************************************)
(* Ephemeris history: properties                                           *)
(***************************************************************************)
\* Two items are the same registered record: equivalent content in the same
\* time bucket (the priority of a record changes with an add).
SameRecord(a, b) == a.t_tag = b.t_tag /\ is_equivalent(a, b)

AnyValid(h, t) == \E i \in 1 .. Len(h) : is_valid(h[i], t)

\* The records after the placeholder are ordered by non-decreasing time
\* bucket and, within one bucket, by non-increasing priority.
HistorySorted(h) ==
  \A i \in 2 .. Len(h) - 1 :
    \/ h[i].t_tag < h[i + 1].t_tag
    \/ h[i].t_tag = h[i + 1].t_tag /\ h[i].priority >= h[i + 1].priority

\* C13: after any sequence of register_ephemeris calls the records after the
\* placeholder are ordered by non-decreasing 10-second time bucket and,
\* within one bucket, by non-increasing priority.
Thm_C13 == HistorySorted(history)

\* C13 witness: three records of one bucket in strictly descending priority,
\* the first of which an add of an equivalent record has just moved there.
Wit_C13 ==
  /\ hist_last.op = "add" /\ hist_last.priority_delta > 0
  /\ Len(history) = 4
  /\ history[2].t_tag = history[4].t_tag
  /\ history[2].priority > history[3].priority
  /\ history[3].priority > history[4].priority
  /\ is_equivalent(history[2], hist_last.item)

\* The sequence h without its element i.
Without(h, i) == SubSeq(h, 1, i - 1) \o SubSeq(h, i + 1, Len(h))

Thm_C15 ==
  [][(/\ hist_last'.op = "select"
      /\ is_valid(current(history, selected_index), hist_last'.t)
      /\ ~maybe_better_one_avilable(current(history, selected_index),
                                    hist_last'.t))
     => selected_index' = selected_index]_vars

\* C15 witness: a conservative select has kept a registered record although
\* the history holds a valid record of higher priority and a valid record
\* with a smaller period from first valid transmission.
Wit_C15 ==
  /\ hist_last.op = "select" /\ hist_last.conservative
  /\ selected_index > 0
  /\ is_valid(current(history, selected_index), hist_last.t)
  /\ ~maybe_better_one_avilable(current(history, selected_index), hist_last.t)
  /\ \E i \in 2 .. Len(history) :
       /\ is_valid(history[i], hist_last.t)
       /\ history[i].priority > current(history, selected_index).priority
  /\ \E i \in 2 .. Len(history) :
       /\ is_valid(history[i], hist_last.t)
       /\ Abs(period_from_first_valid_transmittion2(history[i], hist_last.t))
            < Abs(period_from_first_valid_transmittion2(
                    current(history, selected_index), hist_last.t))

\* C16 as stated: select_ephemeris(t) returns true exactly when the call
\* changed which record is selected.
CE_C16 ==
  [][hist_last'.op = "select" =>
       (hist_last'.ret <=> selected_index' # selected_index)]_vars

\* C16 amended: select_ephemeris(t) returns true exactly when the record that
\* is current after the call is valid at t, which is when the call changed
\* the selection or the record selected before it is valid at t; the
\* selection has changed exactly when PropertyHistory::select says so.
Thm_C16 ==
  [][hist_last'.op = "select" =>
       /\ hist_last'.ret <=>
            is_valid(current(history', selected_index'), hist_last'.t)
       /\ hist_last'.ret <=>
            \/ selected_index' # selected_index
            \/ is_valid(current(history, selected_index), hist_last'.t)
       /\ hist_last'.changed <=> selected_index' # selected_index]_vars

\* C16 witness: a select that searched the history has returned true and
\* kept the selection, the selected record being valid.
Wit_C16 ==
  /\ hist_last.op = "select" /\ hist_last.ret
  /\ ~hist_last.conservative /\ ~hist_last.changed
  /\ selected_index > 0 /\ Len(history) > 2
  /\ is_valid(current(history, selected_index), hist_last.t)

\* The history holds two records A (older) and B (newer) of one fit interval
\* in different time buckets, both valid at t.
TwoValid(h, t) ==
  /\ Len(h) = 3
  /\ h[2].t_tag < h[3].t_tag
  /\ h[2].fit_interval = h[3].fit_interval
  /\ is_valid(h[2], t) /\ is_valid(h[3], t)

\* C17 as stated: with two registered records A (older) and B (newer) of the
\* same fit interval, both valid at t, select_ephemeris(t) ends with B
\* selected, from the placeholder and from A.
CE_C17 ==
  [][(/\ hist_last'.op = "select"
      /\ TwoValid(history, hist_last'.t)
      /\ selected_index \in {0, 1})
     => selected_index' = 2]_vars

\* C17 amended: with two registered records A (older) and B (newer) of the
\* same fit interval, both valid at t, select_ephemeris(t) ends with B
\* selected when the previous selection was the placeholder, or was A and
\* maybe_better_one_avilable(t) is true for A, week rollover between A and B
\* included; when A is selected and maybe_better_one_avilable(t) is false,
\* A stays selected.
Thm_C17 ==
  [][(/\ hist_last'.op = "select"
      /\ TwoValid(history, hist_last'.t))
     => /\ selected_index = 0 => selected_index' = 2
        /\ (/\ selected_index = 1
            /\ maybe_better_one_avilable(history[2], hist_last'.t))
           => selected_index' = 2
        /\ (/\ selected_index = 1
            /\ ~maybe_better_one_avilable(history[2], hist_last'.t))
           => selected_index' = 1]_vars

\* C17 witness: across a week rollover, a select has moved the selection
\* from A to B, both valid at t.
Wit_C17 ==
  /\ hist_last.op = "select" /\ hist_last.before = 1
  /\ selected_index = 2
  /\ TwoValid(history, hist_last.t)
  /\ history[2].WN + 1 = history[3].WN

\* The records old[i], old[i + 1], ... are found in this order among
\* new[j], new[j + 1], ...
RECURSIVE KeptInOrder(_, _, _, _)
KeptInOrder(old, i, new, j) ==
  IF i > Len(old) THEN TRUE
  ELSE IF j > Len(new) THEN FALSE
  ELSE IF SameRecord(new[j], old[i]) THEN KeptInOrder(old, i + 1, new, j + 1)
  ELSE KeptInOrder(old, i, new, j + 1)

\* C18: when merge(another) completes, current() returns the record that was
\* current before the merge (the equivalent copy of the other history when
\* keep_original is false): the original records before it are still before
\* it and those after it still after it, in their order, so that the
\* selected index has advanced by the number of records of the other history
\* placed before the selected record.
Thm_C18 ==
  [][hist_last'.op = "merge_finish" =>
       /\ selected_index' < Len(history')
       /\ selected_index' >= selected_index
       /\ SameRecord(current(history', selected_index'),
                     current(history, selected_index))
       /\ KeptInOrder(SubSeq(history, 1, selected_index), 1,
                      SubSeq(history', 1, selected_index'), 1)
       /\ KeptInOrder(SubSeq(history, selected_index + 2, Len(history)), 1,
                      SubSeq(history', selected_index' + 2, Len(history')), 1)]_vars

\* C18 witness: a merge has completed that placed a record of the other
\* history before the selected record and advanced the selected index.
Wit_C18 ==
  /\ hist_last.op = "merge_finish"
  /\ hist_last.before = 1 /\ selected_index = 2
  /\ Len(history) = 3

(***************************************************************************)
(* Real-Time compensation: properties                                      *)
(***************************************************************************)
\* The last call was correct_with_info on exactly one retained snapshot.
OneSnapshot == calc.op = "correct_with_info" /\ Len(calc.snapshots) = 1

\* What the two modes make of the inputs of the last call.
OfNormal == correct_with_info(RT_NORMAL, calc.snapshots, calc.H_in, calc.R_in)
OfLight == correct_with_info(RT_LIGHT_WEIGHT, calc.snapshots, calc.H_in, calc.R_in)

CE_C3 ==
  merge_st.pc = "loop" =>
    Len(merge_st.list_new) <= 1 + (Len(history) - 1) + (Len(another) - 1)

\* C4: register_ephemeris never changes which record current() returns: the
\* record selected after an add is the record selected before it.
CE_C4 ==
  [][hist_last'.op = "add" =>
       SameRecord(current(history', selected_index'),
                  current(history, selected_index))]_vars

\* C5: when select_ephemeris(t) does not take the conservative path and any
\* registered record is valid at t, the record that is current after the
\* call is valid at t.
CE_C5 ==
  [][(/\ hist_last'.op = "select"
      /\ ~hist_last'.conservative
      /\ AnyValid(history, hist_last'.t))
     => is_valid(current(history', selected_index'), hist_last'.t)]_vars

(***************************************************************************)
(* DataParser: properties                                                  *)
(***************************************************************************)
\* The message bits of a field, most significant part first.
MessageField(f, b) ==
  SubSeq(b, f.offset_bits1 + 1, f.offset_bits1 + f.length1)
    \o SubSeq(b, f.offset_bits2 + 1, f.offset_bits2 + f.length2)
\* The value of the return type that has exactly these bits: zero extended
\* for convert_u and convert_u_2, sign extended for convert_s and convert_s_2.
MessageValue(f, b) ==
  LET bits == MessageField(f, b)
  IN IF f.kind \in {"convert_u", "convert_u_2"} THEN Conv(bits, f.bits)
     ELSE Fill(f.bits - Len(bits), bits[1]) \o bits

SameDateTime(a, b) ==
  /\ a.tm_year = b.tm_year
  /\ a.tm_mon = b.tm_mon
  /\ a.tm_mday = b.tm_mday
  /\ a.tm_hour = b.tm_hour
  /\ a.tm_min = b.tm_min
  /\ a.tm_sec = b.tm_sec

\* C24: for every valid calendar date-time from 1980-01-06 00:00:00 on, with
\* whole seconds and no leap seconds, GPS_Time(tm).c_tm() returns the same
\* year, month, day of month, hour, minute and second, the last day of every
\* year and 29 February of leap years included.
CE_C24 ==
  calc.op = "c_tm" => SameDateTime(calc.c_tm, calc.tm)

\* The double seconds of t is within a week: nothing was taken from it
\* modulo 2^32.
Canonical(t) == t.borrow = 0 /\ 0 <= t.seconds /\ t.seconds < seconds_week

\* C26: for every GPS_Time t with 0 <= seconds < 604800 and every offset s,
\* negative and larger than a week included, t + s and t - s again have
\* 0 <= seconds < 604800, are the instants serialize(t) + s and
\* serialize(t) - s, and (t + s) - t = s.
CE_C26 ==
  calc.op = "offset" =>
    /\ Canonical(calc.plus)
    /\ Canonical(calc.minus)
    /\ serialize(calc.plus) = serialize(calc.t) + calc.s
    /\ serialize(calc.minus) = serialize(calc.t) - calc.s
    /\ calc.interval = [seconds |-> calc.s, borrow |-> 0]

(***************************************************************************)
(* Ephemeris::raw_t: properties                                            *)
(***************************************************************************)
WithinOneLSB(a, b) ==
  /\ Abs(a.hi - b.hi) <= 1
  /\ Abs((a.hi - b.hi) * Half + (a.lo - b.lo)) <= 1

\* C25: for every scaled field of the ephemeris and every broadcast integer
\* the field can hold, negative values of the signed fields and values of
\* e and sqrt_A from 2^31 on included, the integer converted to its scaled
\* value and back is within 1 LSB of the original.
CE_C25 ==
  calc.op = "raw_t" => WithinOneLSB(calc.back, calc.raw)

(***************************************************************************)
(* Back-Propagate depth: properties                                        *)
(***************************************************************************)
\* The snapshot kept at position j was back-propagated by the step: its
\* filter is the one it had, corrected with the estimate of the step.
BackPropagated(j) ==
  bp_snapshots'[j].ins_gps =
    correct_primitive(
      bp_snapshots[j + (Len(bp_snapshots) - Len(bp_snapshots'))].ins_gps,
      bp_last'.x_hat_s)
Untouched(j) ==
  bp_snapshots'[j].ins_gps =
    bp_snapshots[j + (Len(bp_snapshots) - Len(bp_snapshots'))].ins_gps
EstimateMoves(x_hat) == correct_primitive(NewFilter, x_hat) # NewFilter

\* C27: back_propagate_depth sets how many snapshots are back-propagated at
\* a correction: with depth 0 only the newest snapshot receives the primitive
\* correction, with a negative depth the older snapshots whose elapsedT is
\* >= the depth receive it as well.
CE_C27 ==
  [][(/\ bp_last'.op = "correct" /\ bp_last'.primitive
      /\ bp_depth <= 0
      /\ EstimateMoves(bp_last'.x_hat_s)
      /\ bp_snapshots # <<>> /\ bp_snapshots' # <<>>)
     => \A j \in 1 .. Len(bp_snapshots') :
          IF \/ j = Len(bp_snapshots')
             \/ /\ bp_depth < 0
                /\ bp_snapshots[j + (Len(bp_snapshots)
                                      - Len(bp_snapshots'))].elapsedT >= bp_depth
          THEN BackPropagated(j)
          ELSE Untouched(j)]_vars

(***************************************************************************)
(* Filter dimensions: properties                                           *)
(***************************************************************************)
DimOps == {"getAB", "correct_INS", "correct_info", "range_residual_mean_ms"}

\* C28: for every clock count N >= 1 and every clock_index in [0, N), the
\* columns P_SIZE_WITHOUT_CLOCK_ERROR + 2 * clock_index and the next one that
\* correct_info, range_residual_mean_ms, getAB and correct_INS read or write
\* lie inside the filter dimension: P_SIZE = P_SIZE_WITHOUT_CLOCK_ERROR + 2N
\* and Q_SIZE = Q_SIZE_WITHOUT_CLOCK_ERROR + 2N.
CE_C28 ==
  calc.op \in DimOps =>
    /\ calc.prop.P_SIZE
         = calc.prop.P_SIZE_WITHOUT_CLOCK_ERROR + 2 * calc.prop.Clocks
    /\ calc.prop.Q_SIZE
         = calc.prop.Q_SIZE_WITHOUT_CLOCK_ERROR + 2 * calc.prop.Clocks
    /\ \A i \in calc.index.P : i < calc.prop.P_SIZE
    /\ \A i \in calc.index.Q : i < calc.prop.Q_SIZE

(***************************************************************************)
(* GNSS_Data::Loader: properties                                           *)
(***************************************************************************)
LoadStep == loader'.last.op = "load" /\ loader'.last.seq # loader.last.seq
MarksCleared(eph) ==
  /\ ~eph.set_iodc
  /\ eph.iode_subframe2 = -1
  /\ eph.iode_subframe3 = -1
\* The ephemeris made of the latest subframes 1, 2 and 3.
OfLatest(e, received) ==
  /\ e.subframe1 = received[1] /\ e.iodc = received[1]
  /\ e.subframe2 = received[2]
  /\ e.subframe3 = received[3]

\* C29: for any interleaving of subframes 1, 2 and 3 of one satellite from
\* different data issues, load registers an ephemeris only when a subframe
\* 1, a subframe 2 and a subframe 3 have each been received since the
\* previous registration (or since start) and the latest ones agree: IODE of
\* subframe 2 = IODE of subframe 3 = low 8 bits of IODC.  Each registration
\* clears the three receipt marks, so one set of subframes is registered at
\* most once, also when no space node is attached and load returns false.
Thm_C29 ==
  [][LoadStep =>
       LET L == loader'.last
       IN /\ L.complete =>
               /\ \A n \in 1 .. 3 : L.received[n] >= 0
               /\ L.received[2] = L.received[3]
               /\ L.received[2] = L.received[1] % 256
               /\ MarksCleared(loader'.gps_ephemeris)
               /\ L.ret = loader.gps
               /\ IF loader.gps
                  THEN /\ Len(loader'.registered) = Len(loader.registered) + 1
                       /\ SubSeq(loader'.registered, 1, Len(loader.registered))
                            = loader.registered
                       /\ OfLatest(loader'.registered[Len(loader'.registered)],
                                   L.received)
                  ELSE loader'.registered = loader.registered
          /\ ~L.complete => loader'.registered = loader.registered]_vars

\* C29 witness: after an earlier registration and with no space node
\* attached, subframes 1 (IODC 261), 2 and 3 (IODE 5) have arrived again;
\* load has handed them on, returned false and cleared the marks.
Wit_C29 ==
  /\ loader.last.op = "load"
  /\ loader.last.complete /\ ~loader.last.ret
  /\ loader.last.received[1] = 261
  /\ Len(loader.registered) >= 1
  /\ MarksCleared(loader.gps_ephemeris)

\* C30: in Back-Propagate mode the elapsedT adjustment is applied once per
\* correction epoch: a second correction with no time update in between
\* changes the elapsedT_from_last_correct of no snapshot and erases no
\* snapshot, for every back_propagate_depth and every snapshot list.
Thm_C30 ==
  [][(/\ bp_last.op = "correct" /\ bp_last.primitive
      /\ bp_last'.op = "correct" /\ bp_last'.seq # bp_last.seq
      /\ bp_last'.primitive)
     => /\ Len(bp_snapshots') = Len(bp_snapshots)
        /\ \A i \in 1 .. Len(bp_snapshots) :
             bp_snapshots'[i].elapsedT = bp_snapshots[i].elapsedT]_vars

\* C30 witness: a correction has followed a correction that had reduced the
\* elapsedT of two snapshots; the list still has both, the older one behind
\* the newest by the step between them.
Wit_C30 ==
  /\ bp_last.op = "correct" /\ bp_last.primitive /\ bp_last.repeated
  /\ Len(bp_snapshots) >= 2
  /\ bp_snapshots[Len(bp_snapshots)].elapsedT = 0
  /\ bp_snapshots[Len(bp_snapshots) - 1].elapsedT < 0

====
